---- MODULE Spec2Model ----
(***************************************************************************)
(* Credential issuance, proof generation and proof verification of the     *)
(* private degree verifier: src/unnamed/part_000 (the credential issuer),  *)
(* src/unnamed/part_002 (the issuance endpoint),                           *)
(* src/src/services/proofService.ts, src/src/utils/crypto.ts and           *)
(* src/api/verify.ts.                                                       *)
(*                                                                         *)
(* JavaScript strings are sequences of tokens.  A token is a record        *)
(* [k, v, w]: k its kind, v its content, w the number of UTF-16 code units *)
(* it stands for.  A character is the token of kind "c" holding its code   *)
(* point.  The fixed-width outputs of WebCrypto (a SHA-256 digest, an      *)
(* exported key, an ECDSA signature, each rendered in hexadecimal) are one *)
(* token each, as wide as the text they stand for; cutting such a text     *)
(* leaves a token of kind "slice", and writing two of the characters of a  *)
(* signature anew leaves one of kind "respelt".  The white space           *)
(* JSON.stringify writes between the tokens of an indented text is a token *)
(* of kind "ws".  SHA-256 is taken to be injective and ECDSA unforgeable:  *)
(* a digest token holds the bytes hashed, a signature token the key and    *)
(* the bytes signed.  The hex digits of a digest or of a signature are not *)
(* computed: where the code reads one, it may be any digit, and for a      *)
(* digest the same digit whenever that digest is read again.               *)
(***************************************************************************)
EXTENDS Integers, Sequences, FiniteSets, TLC

VARIABLES
    nextKey,     \* number of key pairs crypto.subtle.generateKey has produced
    issuerKeys,  \* the key pair the issuer holds: the last one generateIssuerKeys returned
    now,         \* the millisecond clock behind Date.now(), as an offset from DateNowHigh
    issueCall,   \* the last issueCredential call: its arguments and what it returned
    held,        \* the credential the holder has loaded
    proofCall,   \* the last generateProof call on the held credential, and what it returned
    verifyCall,  \* the last verification call: its request, environment and response
    sha256Tail,  \* the last hex digit of each SHA-256 digest performCryptographicVerification has read
    issuanceCall, \* the last call of batchIssueCredentials or of the issuance endpoint
    pureCall,    \* a call of a function that reads no state: its arguments and its result
    exchange,    \* the last HTTP request a transport handler ran on, and what it did with res
    ui,          \* the state of App and of ProofGenerator, and the generateProof call in flight
    wallet,      \* the AleoService singleton, its provider, localStorage, and the calls in flight
    verdicts     \* the first verification of a run, the last one, and whether another came between

vars ==
    <<nextKey, issuerKeys, now, issueCall, held, proofCall, verifyCall, sha256Tail,
      issuanceCall, pureCall, exchange, ui, wallet, verdicts>>

\* the variables of issuance, proof generation and verification
coreVars ==
    <<nextKey, issuerKeys, now, issueCall, held, proofCall, verifyCall, sha256Tail,
      issuanceCall, pureCall>>

(***************************************************************************)
(* Bounds of the model.                                                    *)
(***************************************************************************)
MaxKeyPairs == 2
MaxTick == 1
MaxBatch == 2
MaxFields == 2
MaxHashes == 3
MaxCalls == 3

(***************************************************************************)
(* Widths fixed by the code and by the encodings it uses.                  *)
(***************************************************************************)
Sha256HexLen == 64
Pkcs8HexLen == 276
SpkiHeaderHexLen == 52
EcPointHexLen == 130
SignatureHexLen == 128
ProofHashLen == 64
VkKeyPrefixLen == 16
MinProofLen == 10
MaxProofLen == 1000
MinIssuerKeyLen == 32
MaxLatin1 == 255

(***************************************************************************)
(* Strings.                                                                *)
(***************************************************************************)
Code ==
    " " :> 32 @@ "\"" :> 34 @@ "," :> 44 @@ "-" :> 45 @@ "." :> 46 @@
    "0" :> 48 @@ "1" :> 49 @@ "2" :> 50 @@ "3" :> 51 @@ "4" :> 52 @@
    "5" :> 53 @@ "6" :> 54 @@ "7" :> 55 @@ "8" :> 56 @@ "9" :> 57 @@
    ":" :> 58 @@ "A" :> 65 @@ "B" :> 66 @@ "C" :> 67 @@ "D" :> 68 @@
    "E" :> 69 @@ "F" :> 70 @@ "G" :> 71 @@ "H" :> 72 @@ "I" :> 73 @@
    "J" :> 74 @@ "K" :> 75 @@ "L" :> 76 @@ "M" :> 77 @@ "N" :> 78 @@
    "O" :> 79 @@ "P" :> 80 @@ "Q" :> 81 @@ "R" :> 82 @@ "S" :> 83 @@
    "T" :> 84 @@ "U" :> 85 @@ "V" :> 86 @@ "W" :> 87 @@ "X" :> 88 @@
    "Y" :> 89 @@ "Z" :> 90 @@ "\\" :> 92 @@ "_" :> 95 @@ "a" :> 97 @@
    "b" :> 98 @@ "c" :> 99 @@ "d" :> 100 @@ "e" :> 101 @@ "f" :> 102 @@
    "g" :> 103 @@ "h" :> 104 @@ "i" :> 105 @@ "j" :> 106 @@ "k" :> 107 @@
    "l" :> 108 @@ "m" :> 109 @@ "n" :> 110 @@ "o" :> 111 @@ "p" :> 112 @@
    "q" :> 113 @@ "r" :> 114 @@ "s" :> 115 @@ "t" :> 116 @@ "u" :> 117 @@
    "v" :> 118 @@ "w" :> 119 @@ "x" :> 120 @@ "y" :> 121 @@ "z" :> 122 @@
    "{" :> 123 @@ "|" :> 124 @@ "}" :> 125

Ch(code) == [k |-> "c", v |-> code, w |-> 1]

Lit(s) == [i \in 1..Len(s) |-> Ch(Code[s[i]])]

Comma == Lit(<<",">>)
Minus == Lit(<<"-">>)
Dot == Lit(<<".">>)
Pipe == Lit(<<"|">>)

\* the property names and punctuation JSON.stringify writes
KeyDegreeHash ==
    Lit(<<"{", "\"", "d", "e", "g", "r", "e", "e", "H", "a", "s", "h",
          "\"", ":">>)
KeySchoolHash ==
    Lit(<<",", "\"", "s", "c", "h", "o", "o", "l", "H", "a", "s", "h",
          "\"", ":">>)
KeyDateHash ==
    Lit(<<",", "\"", "d", "a", "t", "e", "H", "a", "s", "h", "\"", ":">>)
KeyStudentIdHash ==
    Lit(<<",", "\"", "s", "t", "u", "d", "e", "n", "t", "I", "d", "H", "a",
          "s", "h", "\"", ":">>)
KeyGpaHash == Lit(<<",", "\"", "g", "p", "a", "H", "a", "s", "h", "\"", ":">>)
CloseBrace == Lit(<<"}">>)
KeyDegree == Lit(<<"{", "\"", "d", "e", "g", "r", "e", "e", "\"", ":">>)
KeySchool == Lit(<<",", "\"", "s", "c", "h", "o", "o", "l", "\"", ":">>)
KeyGraduationDate ==
    Lit(<<",", "\"", "g", "r", "a", "d", "u", "a", "t", "i", "o", "n", "D",
          "a", "t", "e", "\"", ":">>)
KeyStudentId ==
    Lit(<<",", "\"", "s", "t", "u", "d", "e", "n", "t", "I", "d", "\"",
          ":">>)
KeyGpa == Lit(<<",", "\"", "g", "p", "a", "\"", ":">>)
KeyHashedData ==
    Lit(<<"{", "\"", "h", "a", "s", "h", "e", "d", "D", "a", "t", "a",
          "\"", ":">>)
KeySignature ==
    Lit(<<",", "\"", "s", "i", "g", "n", "a", "t", "u", "r", "e", "\"",
          ":">>)
KeyIssuerPublicKey ==
    Lit(<<",", "\"", "i", "s", "s", "u", "e", "r", "P", "u", "b", "l", "i",
          "c", "K", "e", "y", "\"", ":">>)
KeyTimestamp ==
    Lit(<<",", "\"", "t", "i", "m", "e", "s", "t", "a", "m", "p", "\"",
          ":">>)
KeyCredential ==
    Lit(<<"{", "\"", "c", "r", "e", "d", "e", "n", "t", "i", "a", "l",
          "\"", ":">>)
KeyInputs == Lit(<<",", "\"", "i", "n", "p", "u", "t", "s", "\"", ":">>)

\* the fixed texts of proofService.ts and api/verify.ts
ProofPrefix == Lit(<<"z", "k", "p", "r", "o", "o", "f", "_">>)
VerifiedTag ==
    Lit(<<"d", "e", "g", "r", "e", "e", "_", "v", "e", "r", "i", "f", "i",
          "e", "d">>)
VkPrefix == Lit(<<"v", "k", "_">>)

\* field values
SampleDegree ==
    Lit(<<"B", "a", "c", "h", "e", "l", "o", "r", " ", "o", "f", " ", "S",
          "c", "i", "e", "n", "c", "e", " ", "i", "n", " ", "C", "o", "m",
          "p", "u", "t", "e", "r", " ", "S", "c", "i", "e", "n", "c", "e">>)
SampleSchool ==
    Lit(<<"M", "a", "s", "s", "a", "c", "h", "u", "s", "e", "t", "t", "s",
          " ", "I", "n", "s", "t", "i", "t", "u", "t", "e", " ", "o", "f",
          " ", "T", "e", "c", "h", "n", "o", "l", "o", "g", "y">>)
Date2023 == Lit(<<"2", "0", "2", "3", "-", "0", "5", "-", "1", "5">>)
StudentId9 == Lit(<<"1", "2", "3", "4", "5", "6", "7", "8", "9">>)
DegreeBSc == Lit(<<"B", "S", "c">>)
SchoolMIT == Lit(<<"M", "I", "T">>)
DegreeBA == Lit(<<"B", "A">>)
SchoolETH == Lit(<<"E", "T", "H">>)
Date2024 == Lit(<<"2", "0", "2", "4", "-", "0", "5", "-", "1", "5">>)
StudentId1 == Lit(<<"1">>)
KeyText00 == Lit(<<"0", "0">>)
TextAb == Lit(<<"a", "b">>)
TextK == Lit(<<"k">>)
TextFour == Lit(<<"4">>)

\* the halves of a sequence of two or more elements
Left(s) == SubSeq(s, 1, Len(s) \div 2)
Right(s) == SubSeq(s, Len(s) \div 2 + 1, Len(s))

\* String.prototype.length: the code units of s[lo..hi], then of the whole string
RECURSIVE UnitsBetween(_, _, _)
UnitsBetween(s, lo, hi) ==
    IF lo > hi THEN 0
    ELSE IF lo = hi THEN s[lo].w
    ELSE UnitsBetween(s, lo, (lo + hi) \div 2) + UnitsBetween(s, (lo + hi) \div 2 + 1, hi)

StrLen(s) == UnitsBetween(s, 1, Len(s))

\* The first n code units of token t, n < t.w.  Cutting base64 text after n characters keeps the bytes those characters
\* encode: three bytes for every four characters.
RECURSIVE FirstUnits(_, _, _)
SliceOf(t, n) ==
    IF t.k = "slice" THEN [k |-> "slice", v |-> <<t.v[1], n>>, w |-> n]
    ELSE IF t.k = "b64" THEN [k |-> "b64", v |-> FirstUnits(t.v, 1, (3 * n + 3) \div 4), w |-> n]
    ELSE [k |-> "slice", v |-> <<t, n>>, w |-> n]

\* The first n code units of the string that starts at token i of s
FirstUnits(s, i, n) ==
    IF n <= 0 \/ i > Len(s) THEN <<>>
    ELSE IF s[i].w <= n THEN <<s[i]>> \o FirstUnits(s, i + 1, n - s[i].w)
    ELSE <<SliceOf(s[i], n)>>

\* String.prototype.substring(0, n)
Substring0(s, n) == FirstUnits(s, 1, n)

\* String.prototype.startsWith
StartsWith(s, prefix) == Substring0(s, StrLen(prefix)) = prefix

\* Array.prototype.join with the empty separator
RECURSIVE JoinEmpty(_)
JoinEmpty(list) == IF list = <<>> THEN <<>> ELSE Head(list) \o JoinEmpty(Tail(list))

\* Array.prototype.join
RECURSIVE JoinWith(_, _)
JoinWith(list, separator) ==
    IF list = <<>> THEN <<>>
    ELSE IF Len(list) = 1 THEN list[1]
    ELSE list[1] \o separator \o JoinWith(Tail(list), separator)

Digit(n) == Ch(48 + n)

\* decimal digits of a natural number
RECURSIVE DecDigits(_)
DecDigits(n) == IF n < 10 THEN <<Digit(n)>> ELSE DecDigits(n \div 10) \o <<Digit(n % 10)>>

(***************************************************************************)
(* Numbers.  A gpa is held in hundredths (385 is 3.85); a timestamp is the *)
(* clock's offset from the millisecond count whose decimal digits are      *)
(* DateNowHigh followed by one more digit.                                 *)
(***************************************************************************)
DateNowHigh == Lit(<<"1", "7", "6", "2", "3", "6", "6", "8", "0", "0", "0", "0">>)

\* Number.prototype.toString of a timestamp
TimestampToString(t) == DateNowHigh \o DecDigits(t)

\* Number.prototype.toString of a gpa
GpaToString(h) ==
    LET a == IF h < 0 THEN 0 - h ELSE h
        sign == IF h < 0 THEN Minus ELSE <<>>
        whole == DecDigits(a \div 100)
        frac == a % 100
    IN  IF frac = 0 THEN sign \o whole
        ELSE IF frac % 10 = 0 THEN sign \o whole \o Dot \o <<Digit(frac \div 10)>>
        ELSE sign \o whole \o Dot \o <<Digit(frac \div 10), Digit(frac % 10)>>

\* an optional value is a sequence of at most one element
Absent == <<>>
Some(x) == <<x>>

\* JavaScript truthiness of an optional number and of an optional string
TruthyNumber(m) == m # Absent /\ m[1] # 0
TruthyString(m) == m # Absent /\ m[1] # <<>>

(***************************************************************************)
(* src/src/utils/crypto.ts                                                 *)
(***************************************************************************)
Byte(n) == [k |-> "byte", v |-> n, w |-> 1]

\* TextEncoder.encode of one code point (a lone surrogate becomes U+FFFD)
Utf8Char(cp) ==
    IF cp < 128 THEN <<Byte(cp)>>
    ELSE IF cp < 2048 THEN <<Byte(192 + (cp \div 64)), Byte(128 + (cp % 64))>>
    ELSE IF cp >= 55296 /\ cp <= 57343 THEN <<Byte(239), Byte(191), Byte(189)>>
    ELSE <<Byte(224 + (cp \div 4096)), Byte(128 + ((cp \div 64) % 64)), Byte(128 + (cp % 64))>>

RECURSIVE Utf8(_)
Utf8(s) ==
    IF s = <<>> THEN <<>>
    ELSE IF Len(s) = 1 THEN (IF s[1].k = "c" THEN Utf8Char(s[1].v) ELSE s)
    ELSE Utf8(Left(s)) \o Utf8(Right(s))

hashData(data) == <<[k |-> "sha256", v |-> Utf8(data), w |-> Sha256HexLen]>>

\* the id-th key pair crypto.subtle.generateKey returns, exported as hex
generateKeyPair(id) ==
    [privateKey |-> <<[k |-> "pkcs8", v |-> id, w |-> Pkcs8HexLen]>>,
     publicKey |-> <<[k |-> "spkihdr", v |-> 0, w |-> SpkiHeaderHexLen],
                     [k |-> "ecpoint", v |-> id, w |-> EcPointHexLen]>>]

\* crypto.subtle.importKey('pkcs8', ...) accepts the hex text
IsPkcs8(hex) == Len(hex) = 1 /\ hex[1].k = "pkcs8"

\* crypto.subtle.importKey('spki', ...) accepts the hex text
IsSpki(hex) == Len(hex) = 2 /\ hex[1].k = "spkihdr" /\ hex[2].k = "ecpoint"

signData(data, privateKeyHex) ==
    IF IsPkcs8(privateKeyHex)
    THEN [ok |-> TRUE,
          value |-> <<[k |-> "ecdsa", v |-> <<privateKeyHex[1].v, Utf8(data)>>,
                       w |-> SignatureHexLen]>>]
    ELSE [ok |-> FALSE, value |-> <<>>]

\* the value of a hex digit, given its character code; -1 for any other character
HexValue(c) ==
    IF c \in 48..57 THEN c - 48
    ELSE IF c \in 97..102 THEN c - 87
    ELSE IF c \in 65..70 THEN c - 55
    ELSE 0 - 1

\* Number.prototype.toString(16) of a digit value: the lower-case digit
HexChar(d) == IF d < 10 THEN 48 + d ELSE 87 + d

\* the hex digits at the start of s[i..], read as a number on top of acc
RECURSIVE DigitsValue(_, _, _)
DigitsValue(s, i, acc) ==
    IF i > Len(s) \/ HexValue(s[i]) < 0 THEN acc
    ELSE DigitsValue(s, i + 1, 16 * acc + HexValue(s[i]))

\* the first index from i on that holds no white space
RECURSIVE SkipWhite(_, _)
SkipWhite(s, i) ==
    IF i <= Len(s) /\ s[i] \in {9, 10, 11, 12, 13, 32} THEN SkipWhite(s, i + 1) ELSE i

\* parseInt(s, 16) of a text given by its character codes: white space, a sign
\* and the prefix 0x are skipped, then the longest run of hex digits is read
parseInt16(s) ==
    LET i == SkipWhite(s, 1)
        signed == i <= Len(s) /\ s[i] \in {43, 45}
        j == IF signed THEN i + 1 ELSE i
        k == IF j + 1 <= Len(s) /\ s[j] = 48 /\ s[j + 1] \in {88, 120} THEN j + 2 ELSE j
    IN  IF k > Len(s) \/ HexValue(s[k]) < 0 THEN [nan |-> TRUE, value |-> 0]
        ELSE [nan |-> FALSE,
              value |-> IF signed /\ s[i] = 45 THEN 0 - DigitsValue(s, k, 0)
                        ELSE DigitsValue(s, k, 0)]

\* the element a Uint8Array keeps of a number
ToUint8(n) == IF n.nan THEN 0 ELSE n.value % 256

\* A signature text in which the at-th pair of characters is spelt anew: pair
\* holds the two digit values the signature has there, text the character codes
\* written in their place.
Respell(block, at, pair, text) ==
    [k |-> "respelt", v |-> [of |-> block, at |-> at, pair |-> pair, text |-> text],
     w |-> block.w]

\* new Uint8Array(signatureHex.match(/.{1,2}/g)!.map(byte => parseInt(byte, 16))):
\* throws on the empty text, where match gives null; bytes: the signature the
\* bytes are, when they are one
hexToSignature(signatureHex) ==
    IF signatureHex = <<>> THEN [throws |-> TRUE, isSignature |-> FALSE, bytes |-> <<>>]
    ELSE IF Len(signatureHex) = 1 /\ signatureHex[1].k = "ecdsa"
    THEN [throws |-> FALSE, isSignature |-> TRUE, bytes |-> signatureHex[1].v]
    ELSE IF /\ Len(signatureHex) = 1
            /\ signatureHex[1].k = "respelt"
            /\ signatureHex[1].v.of.k = "ecdsa"
            /\ ToUint8(parseInt16(signatureHex[1].v.text))
                   = 16 * signatureHex[1].v.pair[1] + signatureHex[1].v.pair[2]
    THEN [throws |-> FALSE, isSignature |-> TRUE, bytes |-> signatureHex[1].v.of.v]
    ELSE [throws |-> FALSE, isSignature |-> FALSE, bytes |-> <<>>]

\* what verifySignature answers once the bytes of the signature are read
verifyBytes(data, signature, publicKeyHex) ==
    /\ ~signature.throws
    /\ IsSpki(publicKeyHex)
    /\ signature.isSignature
    /\ signature.bytes = <<publicKeyHex[2].v, Utf8(data)>>

verifySignature(data, signatureHex, publicKeyHex) ==
    verifyBytes(data, hexToSignature(signatureHex), publicKeyHex)

hashMultipleFields(fields) == hashData(JoinWith(fields, Pipe))

NoRoot == [throws |-> TRUE, root |-> <<>>]

\* createMerkleRoot in which an element without a partner goes up a level as it is
RECURSIVE createMerkleRootPromote(_)
createMerkleRootPromote(hashes) ==
    IF Len(hashes) = 0 THEN NoRoot
    ELSE IF Len(hashes) = 1 THEN [throws |-> FALSE, root |-> hashes[1]]
    ELSE createMerkleRootPromote(
             [i \in 1..((Len(hashes) + 1) \div 2) |->
                 IF 2 * i <= Len(hashes) THEN hashData(hashes[2 * i - 1] \o hashes[2 * i])
                 ELSE hashes[2 * i - 1]])

\* throws: the call throws 'Cannot create merkle root from empty array'
RECURSIVE createMerkleRoot(_)
createMerkleRoot(hashes) ==
    IF Len(hashes) = 0 THEN NoRoot
    ELSE IF Len(hashes) = 1 THEN [throws |-> FALSE, root |-> hashes[1]]
    ELSE createMerkleRoot(
             [i \in 1..((Len(hashes) + 1) \div 2) |->
                 hashData(hashes[2 * i - 1]
                              \o (IF 2 * i <= Len(hashes) THEN hashes[2 * i]
                                  ELSE hashes[2 * i - 1]))])

(***************************************************************************)
(* JSON.stringify                                                          *)
(***************************************************************************)
Quote == Lit(<<"\"">>)

RECURSIVE JsonEscape(_)
JsonEscape(s) ==
    IF s = <<>> THEN <<>>
    ELSE IF Len(s) = 1
    THEN (IF s[1].k = "c" /\ s[1].v \in {34, 92} THEN <<Ch(92), s[1]>> ELSE s)
    ELSE JsonEscape(Left(s)) \o JsonEscape(Right(s))

JsonString(s) == Quote \o JsonEscape(s) \o Quote

\* JSON.stringify(hashedData): a property whose value is undefined is left out
JsonHashedData(h) ==
    KeyDegreeHash
        \o JsonString(h.degreeHash)
    \o KeySchoolHash
        \o JsonString(h.schoolHash)
    \o KeyDateHash
        \o JsonString(h.dateHash)
    \o KeyStudentIdHash
        \o JsonString(h.studentIdHash)
    \o (IF h.gpaHash = Absent THEN <<>>
        ELSE KeyGpaHash
                 \o JsonString(h.gpaHash[1]))
    \o CloseBrace

\* JSON.stringify(privateInputs)
JsonDiplomaData(d) ==
    KeyDegree \o JsonString(d.degree)
    \o KeySchool \o JsonString(d.school)
    \o KeyGraduationDate
        \o JsonString(d.graduationDate)
    \o KeyStudentId
        \o JsonString(d.studentId)
    \o (IF d.gpa = Absent THEN <<>>
        ELSE KeyGpa \o GpaToString(d.gpa[1]))
    \o CloseBrace

(***************************************************************************)
(* src/unnamed/part_000: the credential issuer                             *)
(***************************************************************************)
NoHashedData ==
    [degreeHash |-> <<>>, schoolHash |-> <<>>, dateHash |-> <<>>,
     studentIdHash |-> <<>>, gpaHash |-> Absent]

NoCredential ==
    [hashedData |-> NoHashedData, signature |-> <<>>, issuerPublicKey |-> <<>>,
     timestamp |-> 0]

\* the hashedData object issueCredential builds
issuerHashedData(diplomaData) ==
    [degreeHash |-> hashData(diplomaData.degree),
     schoolHash |-> hashData(diplomaData.school),
     dateHash |-> hashData(diplomaData.graduationDate),
     studentIdHash |-> hashData(diplomaData.studentId),
     gpaHash |-> IF TruthyNumber(diplomaData.gpa)
                 THEN Some(hashData(GpaToString(diplomaData.gpa[1])))
                 ELSE Absent]

\* issueCredential returning the credential without a signature when signData
\* throws, in place of throwing itself
issueCredentialUnsigned(diplomaData, issuerPrivateKey, keyId, clock) ==
    LET hashedData == issuerHashedData(diplomaData)
        signature == signData(JsonHashedData(hashedData), issuerPrivateKey)
    IN  [ok |-> TRUE, error |-> "",
         credential |-> [hashedData |-> hashedData,
                         signature |-> signature.value,
                         issuerPublicKey |-> generateKeyPair(keyId).publicKey,
                         timestamp |-> clock]]

\* keyId: the key pair generateKeyPair() returns inside the call; clock: Date.now()
issueCredential(diplomaData, issuerPrivateKey, keyId, clock) ==
    LET hashedData == issuerHashedData(diplomaData)
        dataToSign == JsonHashedData(hashedData)
        signature == signData(dataToSign, issuerPrivateKey)
        keyPair == generateKeyPair(keyId)
        issuerPublicKey == keyPair.publicKey
    IN  IF ~signature.ok
        THEN [ok |-> FALSE, error |-> "Failed to issue credential",
              credential |-> NoCredential]
        ELSE [ok |-> TRUE, error |-> "",
              credential |-> [hashedData |-> hashedData,
                              signature |-> signature.value,
                              issuerPublicKey |-> issuerPublicKey,
                              timestamp |-> clock]]

verifyCredential(credential, issuerPublicKey) ==
    LET dataToVerify == JsonHashedData(credential.hashedData)
    IN  verifySignature(dataToVerify, credential.signature, issuerPublicKey)

\* verifyCredential on any value: value is Absent for null, and its hashedData
\* is Absent when the object has none.  Reading a property of null throws inside
\* the try block; JSON.stringify(undefined) is undefined, which TextEncoder
\* encodes as the empty text, and no signature of the model signs that.
verifyCredentialValue(value, issuerPublicKey) ==
    IF value = Absent THEN FALSE
    ELSE IF value[1].hashedData = Absent THEN FALSE
    ELSE verifyCredential([value[1] EXCEPT !.hashedData = value[1].hashedData[1]],
                          issuerPublicKey)

\* A JSON object as JSON.parse gives it: a property that the text does not have
\* is Absent.  The object of a credential, and the credential of an object that
\* has every property.
ParsedOf(credential) ==
    [hashedData |->
        Some([degreeHash |-> Some(credential.hashedData.degreeHash),
              schoolHash |-> Some(credential.hashedData.schoolHash),
              dateHash |-> Some(credential.hashedData.dateHash),
              studentIdHash |-> Some(credential.hashedData.studentIdHash),
              gpaHash |-> credential.hashedData.gpaHash]),
     signature |-> Some(credential.signature),
     issuerPublicKey |-> Some(credential.issuerPublicKey),
     timestamp |-> Some(credential.timestamp)]

TypedOf(object) ==
    [hashedData |->
        [degreeHash |-> object.hashedData[1].degreeHash[1],
         schoolHash |-> object.hashedData[1].schoolHash[1],
         dateHash |-> object.hashedData[1].dateHash[1],
         studentIdHash |-> object.hashedData[1].studentIdHash[1],
         gpaHash |-> object.hashedData[1].gpaHash],
     signature |-> object.signature[1],
     issuerPublicKey |-> object.issuerPublicKey[1],
     timestamp |-> object.timestamp[1]]

\* the white space JSON.stringify writes with an indentation: a line break
\* followed by n spaces, and the space after a colon
Newline(n) == [k |-> "ws", v |-> <<1, n>>, w |-> n + 1]
Gap == [k |-> "ws", v |-> <<0, 1>>, w |-> 1]
NotWhiteSpace(t) == t.k # "ws"

OpenBrace == Lit(<<"{">>)
Colon == Lit(<<":">>)

\* the quoted name in one of the texts Key...
PropertyName(key) == SubSeq(key, 2, Len(key) - 1)

\* one property of an object, nothing when the object does not have it
Member(key, value, text, pretty) ==
    IF value = Absent THEN <<>>
    ELSE <<PropertyName(key) \o Colon \o (IF pretty THEN <<Gap>> ELSE <<>>) \o text>>

\* an object whose properties are written at indentation indent + 2
ObjectText(members, indent, pretty) ==
    IF members = <<>> THEN OpenBrace \o CloseBrace
    ELSE OpenBrace
             \o (IF pretty THEN <<Newline(indent + 2)>> ELSE <<>>)
             \o JoinWith(members,
                         Comma \o (IF pretty THEN <<Newline(indent + 2)>> ELSE <<>>))
             \o (IF pretty THEN <<Newline(indent)>> ELSE <<>>)
             \o CloseBrace

\* the text of an optional string
StringText(m) == IF m = Absent THEN <<>> ELSE JsonString(m[1])

HashedDataText(h, pretty) ==
    ObjectText(
        Member(KeyDegreeHash, h.degreeHash, StringText(h.degreeHash), pretty)
            \o Member(KeySchoolHash, h.schoolHash, StringText(h.schoolHash), pretty)
            \o Member(KeyDateHash, h.dateHash, StringText(h.dateHash), pretty)
            \o Member(KeyStudentIdHash, h.studentIdHash, StringText(h.studentIdHash), pretty)
            \o Member(KeyGpaHash, h.gpaHash, StringText(h.gpaHash), pretty),
        2, pretty)

\* JSON.stringify(object, null, 2) when pretty, JSON.stringify(object) otherwise
JsonStringify(object, pretty) ==
    ObjectText(
        Member(KeyHashedData, object.hashedData,
               IF object.hashedData = Absent THEN <<>>
               ELSE HashedDataText(object.hashedData[1], pretty),
               pretty)
            \o Member(KeySignature, object.signature, StringText(object.signature), pretty)
            \o Member(KeyIssuerPublicKey, object.issuerPublicKey,
                      StringText(object.issuerPublicKey), pretty)
            \o Member(KeyTimestamp, object.timestamp,
                      IF object.timestamp = Absent THEN <<>>
                      ELSE TimestampToString(object.timestamp[1]),
                      pretty),
        0, pretty)

exportCredential(credential) == JsonStringify(ParsedOf(credential), TRUE)

\* JSON.parse of a file that holds one of the objects of `objects`: the object
\* whose text the file is once the white space between its tokens is skipped
JsonParseText(text, objects) ==
    IF \E o \in objects : JsonStringify(o, FALSE) = text
    THEN [ok |-> TRUE, value |-> CHOOSE o \in objects : JsonStringify(o, FALSE) = text]
    ELSE [ok |-> FALSE, value |-> ParsedOf(NoCredential)]

JsonParse(fileContent, objects) ==
    JsonParseText(SelectSeq(fileContent, NotWhiteSpace), objects)

\* importCredential, once the file is parsed
importParsed(parsed) ==
    IF  \/ ~parsed.ok
        \/ parsed.value.hashedData = Absent
        \/ ~TruthyString(parsed.value.signature)
        \/ ~TruthyString(parsed.value.issuerPublicKey)
    THEN [ok |-> FALSE, error |-> "Failed to import credential: Invalid format",
          credential |-> ParsedOf(NoCredential)]
    ELSE [ok |-> TRUE, error |-> "", credential |-> parsed.value]

\* importCredential that also asks for a gpaHash
importCredentialWithGpa(fileContent, objects) ==
    IF /\ importParsed(JsonParse(fileContent, objects)).ok
       /\ JsonParse(fileContent, objects).value.hashedData[1].gpaHash = Absent
    THEN [ok |-> FALSE, error |-> "Failed to import credential: Invalid format",
          credential |-> ParsedOf(NoCredential)]
    ELSE importParsed(JsonParse(fileContent, objects))

\* the credential is the parsed object, whatever properties it has
importCredential(fileContent, objects) == importParsed(JsonParse(fileContent, objects))

IssueFailed == "Failed to issue credential"
TypeError == "TypeError"

\* issueCredential on an entry of a list: reading a field of a null entry throws
\* inside the try block
issueEntry(entry, issuerPrivateKey, keyId, clock) ==
    IF entry = Absent
    THEN [ok |-> FALSE, error |-> IssueFailed, credential |-> NoCredential]
    ELSE issueCredential(entry[1], issuerPrivateKey, keyId, clock)

\* what batchIssueCredentials does with r, the outcome of issueCredential on
\* entry i, when it pushes the credential onto the front of the list
RECURSIVE batchIssueUnshiftFrom(_, _, _, _, _, _)
batchIssueUnshiftStep(diplomaDataList, i, issuerPrivateKey, keyId, clock, credentials, r) ==
    IF ~r.ok
    THEN [ok |-> FALSE,
          error |-> IF diplomaDataList[i] = Absent THEN TypeError ELSE r.error,
          credentials |-> <<>>, attempted |-> i]
    ELSE batchIssueUnshiftFrom(diplomaDataList, i + 1, issuerPrivateKey, keyId + 1,
                               clock, <<r.credential>> \o credentials)

batchIssueUnshiftFrom(diplomaDataList, i, issuerPrivateKey, keyId, clock, credentials) ==
    IF i > Len(diplomaDataList)
    THEN [ok |-> TRUE, error |-> "", credentials |-> credentials,
          attempted |-> Len(diplomaDataList)]
    ELSE batchIssueUnshiftStep(diplomaDataList, i, issuerPrivateKey, keyId, clock, credentials,
                               issueEntry(diplomaDataList[i], issuerPrivateKey, keyId, clock))

\* batchIssueCredentials with credentials.unshift in place of credentials.push
batchIssueCredentialsUnshift(diplomaDataList, issuerPrivateKey, keyId, clock) ==
    batchIssueUnshiftFrom(diplomaDataList, 1, issuerPrivateKey, keyId, clock, <<>>)

\* what the loop of batchIssueCredentials does with r, the outcome of
\* issueCredential on entry i.  The catch block reads diplomaData.studentId before
\* it throws the error on, which throws a TypeError for a null entry.
RECURSIVE batchIssueFrom(_, _, _, _, _, _)
batchIssueStep(diplomaDataList, i, issuerPrivateKey, keyId, clock, credentials, r) ==
    IF ~r.ok
    THEN [ok |-> FALSE,
          error |-> IF diplomaDataList[i] = Absent THEN TypeError ELSE r.error,
          credentials |-> <<>>, attempted |-> i]
    ELSE batchIssueFrom(diplomaDataList, i + 1, issuerPrivateKey, keyId + 1,
                        clock, Append(credentials, r.credential))

\* the loop of batchIssueCredentials from entry i on; attempted: the entries
\* issueCredential was called for
batchIssueFrom(diplomaDataList, i, issuerPrivateKey, keyId, clock, credentials) ==
    IF i > Len(diplomaDataList)
    THEN [ok |-> TRUE, error |-> "", credentials |-> credentials,
          attempted |-> Len(diplomaDataList)]
    ELSE batchIssueStep(diplomaDataList, i, issuerPrivateKey, keyId, clock, credentials,
                        issueEntry(diplomaDataList[i], issuerPrivateKey, keyId, clock))

\* keyId: the first key pair generateKeyPair() returns inside the call
batchIssueCredentials(diplomaDataList, issuerPrivateKey, keyId, clock) ==
    batchIssueFrom(diplomaDataList, 1, issuerPrivateKey, keyId, clock, <<>>)

(***************************************************************************)
(* src/src/components/CredentialUploader.tsx                               *)
(***************************************************************************)
\* the error validateCredential throws for a parsed object, "" when it throws
\* none
validateCredential(credential) ==
    IF credential.hashedData = Absent THEN "Missing required field: hashedData"
    ELSE IF credential.signature = Absent THEN "Missing required field: signature"
    ELSE IF credential.issuerPublicKey = Absent
    THEN "Missing required field: issuerPublicKey"
    ELSE IF credential.timestamp = Absent THEN "Missing required field: timestamp"
    ELSE IF credential.hashedData[1].degreeHash = Absent
    THEN "Missing required hashed field: degreeHash"
    ELSE IF credential.hashedData[1].schoolHash = Absent
    THEN "Missing required hashed field: schoolHash"
    ELSE IF credential.hashedData[1].dateHash = Absent
    THEN "Missing required hashed field: dateHash"
    ELSE IF credential.hashedData[1].studentIdHash = Absent
    THEN "Missing required hashed field: studentIdHash"
    ELSE IF credential.signature[1] = <<>> THEN "Invalid signature format"
    ELSE IF credential.issuerPublicKey[1] = <<>> THEN "Invalid issuer public key format"
    ELSE ""

(***************************************************************************)
(* src/src/services/proofService.ts                                        *)
(***************************************************************************)
NoProofResponse == [proof |-> <<>>, publicInputs |-> <<>>, verificationKey |-> <<>>]

MismatchError == "Private inputs do not match the credential data"
InvalidCharacterError == "InvalidCharacterError"

\* the hashedInputs object with a gpa hashed whenever the inputs have one, 0 included
proofHashedInputsAnyGpa(privateInputs) ==
    [degreeHash |-> hashData(privateInputs.degree),
     schoolHash |-> hashData(privateInputs.school),
     dateHash |-> hashData(privateInputs.graduationDate),
     studentIdHash |-> hashData(privateInputs.studentId),
     gpaHash |-> IF privateInputs.gpa # Absent
                 THEN Some(hashData(GpaToString(privateInputs.gpa[1])))
                 ELSE Absent]

\* the hashedInputs object generateProof builds
proofHashedInputs(privateInputs) ==
    [degreeHash |-> hashData(privateInputs.degree),
     schoolHash |-> hashData(privateInputs.school),
     dateHash |-> hashData(privateInputs.graduationDate),
     studentIdHash |-> hashData(privateInputs.studentId),
     gpaHash |-> IF TruthyNumber(privateInputs.gpa)
                 THEN Some(hashData(GpaToString(privateInputs.gpa[1])))
                 ELSE Absent]

verifyHashedData(hashedInputs, credentialData) ==
    /\ hashedInputs.degreeHash = credentialData.degreeHash
    /\ hashedInputs.schoolHash = credentialData.schoolHash
    /\ hashedInputs.dateHash = credentialData.dateHash
    /\ hashedInputs.studentIdHash = credentialData.studentIdHash
    /\ \/ hashedInputs.gpaHash = credentialData.gpaHash
       \/ (~TruthyString(hashedInputs.gpaHash) /\ ~TruthyString(credentialData.gpaHash))

\* JSON.stringify(proofData)
JsonProofData(signature, clock, inputs) ==
    KeyCredential
        \o JsonString(signature)
    \o KeyTimestamp
        \o TimestampToString(clock)
    \o KeyInputs
        \o JsonDiplomaData(inputs)
    \o CloseBrace

\* btoa throws InvalidCharacterError on a code unit above 255
BtoaThrows(s) == \E i \in 1..Len(s) : s[i].k = "c" /\ s[i].v > MaxLatin1

\* btoa: four base64 characters for every three bytes
Btoa(s) == <<[k |-> "b64", v |-> s, w |-> 4 * ((StrLen(s) + 2) \div 3)]>>

\* generateMockProof with the whole base64 text as the payload, not its first
\* ProofHashLen characters
generateMockProofUncut(request, clock) ==
    LET proofData == JsonProofData(request.credential.signature, clock,
                                   request.privateInputs)
    IN  IF BtoaThrows(proofData)
        THEN [ok |-> FALSE, error |-> InvalidCharacterError, response |-> NoProofResponse]
        ELSE [ok |-> TRUE, error |-> "",
              response |->
                [proof |-> ProofPrefix \o Btoa(proofData),
                 publicInputs |->
                    <<request.credential.issuerPublicKey,
                      TimestampToString(request.credential.timestamp),
                      VerifiedTag>>,
                 verificationKey |->
                    VkPrefix
                        \o Substring0(request.credential.issuerPublicKey, VkKeyPrefixLen)]]

\* generateMockProof with the time of proof generation as the second public
\* input, not the timestamp of the credential
generateMockProofClocked(request, clock) ==
    LET proofData == JsonProofData(request.credential.signature, clock,
                                   request.privateInputs)
        proofHash == Substring0(Btoa(proofData), ProofHashLen)
    IN  IF BtoaThrows(proofData)
        THEN [ok |-> FALSE, error |-> InvalidCharacterError, response |-> NoProofResponse]
        ELSE [ok |-> TRUE, error |-> "",
              response |->
                [proof |-> ProofPrefix \o proofHash,
                 publicInputs |->
                    <<request.credential.issuerPublicKey,
                      TimestampToString(clock),
                      VerifiedTag>>,
                 verificationKey |->
                    VkPrefix
                        \o Substring0(request.credential.issuerPublicKey, VkKeyPrefixLen)]]

\* clock: Date.now() when the proof is made
generateMockProof(request, clock) ==
    LET proofData == JsonProofData(request.credential.signature, clock,
                                   request.privateInputs)
        proofHash == Substring0(Btoa(proofData), ProofHashLen)
    IN  IF BtoaThrows(proofData)
        THEN [ok |-> FALSE, error |-> InvalidCharacterError, response |-> NoProofResponse]
        ELSE [ok |-> TRUE, error |-> "",
              response |->
                [proof |-> ProofPrefix \o proofHash,
                 publicInputs |->
                    <<request.credential.issuerPublicKey,
                      TimestampToString(request.credential.timestamp),
                      VerifiedTag>>,
                 verificationKey |->
                    VkPrefix
                        \o Substring0(request.credential.issuerPublicKey, VkKeyPrefixLen)]]

generateProof(request, clock) ==
    LET hashedInputs == proofHashedInputs(request.privateInputs)
        isValid == verifyHashedData(hashedInputs, request.credential.hashedData)
    IN  IF ~isValid
        THEN [ok |-> FALSE, error |-> MismatchError, response |-> NoProofResponse]
        ELSE generateMockProof(request, clock)

(***************************************************************************)
(* src/src/services/proofService.ts: verifyProof                           *)
(***************************************************************************)
ServiceVerified ==
    "Zero-knowledge proof verified successfully! The degree is authentic without revealing personal data."
ServiceRejected == "Proof verification failed - invalid proof structure or issuer"
ServiceError == "Verification failed due to error"

\* a VerificationRequest; publicInputs is Absent when the request has no such field
NoRequest ==
    [proof |-> <<>>, publicInputs |-> Absent, verificationKey |-> <<>>,
     issuerPublicKey |-> <<>>]

\* reading request.publicInputs.length throws when the field is missing; the
\* read happens only after request.proof.startsWith has answered true
verifyProofThrows(request) ==
    StartsWith(request.proof, ProofPrefix) /\ request.publicInputs = Absent

\* clock: Date.now() when the response is built
verifyProof(request, clock) ==
    IF verifyProofThrows(request)
    THEN [isValid |-> FALSE, message |-> ServiceError, verifiedAt |-> clock]
    ELSE LET isValidStructure ==
                /\ StartsWith(request.proof, ProofPrefix)
                /\ Len(request.publicInputs[1]) > 0
                /\ StartsWith(request.verificationKey, VkPrefix)
             isValidIssuer == TruthyString(Some(request.issuerPublicKey))
             isValid == isValidStructure /\ isValidIssuer
         IN  [isValid |-> isValid,
              message |-> IF isValid THEN ServiceVerified ELSE ServiceRejected,
              verifiedAt |-> clock]

(***************************************************************************)
(* src/api/verify.ts                                                       *)
(***************************************************************************)
MissingFields == "Invalid request: missing required fields"
InvalidStructure == "Invalid proof structure"
UntrustedIssuer == "Invalid or untrusted issuer"
InvalidPublicInputs == "Invalid public inputs"
CryptoFailed == "Cryptographic proof verification failed"
EndpointVerified == "Proof verified successfully"
MethodNotAllowed == "Method not allowed"
OnlyPost == "Only POST requests are allowed"

validateProofStructure(request) ==
    /\ StartsWith(request.proof, ProofPrefix)
    /\ StartsWith(request.verificationKey, VkPrefix)
    /\ ~(StrLen(request.proof) < MinProofLen \/ StrLen(request.proof) > MaxProofLen)

\* String.prototype.split on the comma, from token i on, cur the piece being read
RECURSIVE SplitFrom(_, _, _)
SplitFrom(s, i, cur) ==
    IF i > Len(s) THEN <<cur>>
    ELSE IF s[i] = Comma[1] THEN <<cur>> \o SplitFrom(s, i + 1, <<>>)
    ELSE SplitFrom(s, i + 1, Append(cur, s[i]))

SplitComma(s) == SplitFrom(s, 1, <<>>)

\* env: process.env.TRUSTED_ISSUERS, Absent when the variable is not set
validateIssuerKey(issuerPublicKey, env) ==
    LET trustedIssuers == IF env = Absent THEN <<>> ELSE SplitComma(env[1])
    IN  IF ~TruthyString(Some(issuerPublicKey)) THEN FALSE
        ELSE IF Len(trustedIssuers) > 0
             THEN \E i \in 1..Len(trustedIssuers) : trustedIssuers[i] = issuerPublicKey
             ELSE StrLen(issuerPublicKey) >= MinIssuerKeyLen

validatePublicInputs(publicInputs) ==
    /\ publicInputs # Absent
    /\ Len(publicInputs[1]) >= 1
    /\ \A i \in 1..Len(publicInputs[1]) : publicInputs[1][i] # <<>>

hashString(input) == <<[k |-> "sha256", v |-> Utf8(input), w |-> Sha256HexLen]>>

\* the text whose digest performCryptographicVerification looks at
combinedHashInput(request) ==
    hashString(request.proof \o request.verificationKey)
        \o hashString(JoinEmpty(request.publicInputs[1]))

\* the values of a hex digit, and those of the digits 0, 5, a and f
HexDigits == 0..15
AcceptedDigits == {0, 5, 10, 15}

\* lastDigit: the last hex digit of hashString(combinedHashInput(request))
performCryptographicVerification(request, lastDigit) == lastDigit \in AcceptedDigits

\* verifyZKProof looking at the issuer key before the structure of the proof
verifyZKProofTrustFirst(request, env, lastDigit) ==
    IF ~validateIssuerKey(request.issuerPublicKey, env)
    THEN [isValid |-> FALSE, message |-> UntrustedIssuer]
    ELSE IF ~validateProofStructure(request)
    THEN [isValid |-> FALSE, message |-> InvalidStructure]
    ELSE IF ~validatePublicInputs(request.publicInputs)
    THEN [isValid |-> FALSE, message |-> InvalidPublicInputs]
    ELSE IF ~performCryptographicVerification(request, lastDigit)
    THEN [isValid |-> FALSE, message |-> CryptoFailed]
    ELSE [isValid |-> TRUE, message |-> EndpointVerified]

verifyZKProof(request, env, lastDigit) ==
    IF ~validateProofStructure(request)
    THEN [isValid |-> FALSE, message |-> InvalidStructure]
    ELSE IF ~validateIssuerKey(request.issuerPublicKey, env)
    THEN [isValid |-> FALSE, message |-> UntrustedIssuer]
    ELSE IF ~validatePublicInputs(request.publicInputs)
    THEN [isValid |-> FALSE, message |-> InvalidPublicInputs]
    ELSE IF ~performCryptographicVerification(request, lastDigit)
    THEN [isValid |-> FALSE, message |-> CryptoFailed]
    ELSE [isValid |-> TRUE, message |-> EndpointVerified]

\* the handler finds one of the four fields of the body missing or empty
missingFields(body) ==
    \/ ~TruthyString(Some(body.proof))
    \/ body.publicInputs = Absent
    \/ ~TruthyString(Some(body.verificationKey))
    \/ ~TruthyString(Some(body.issuerPublicKey))

\* verifyZKProof gets as far as performCryptographicVerification
readsDigest(method, body, env) ==
    /\ method = "POST"
    /\ ~missingFields(body)
    /\ validateProofStructure(body)
    /\ validateIssuerKey(body.issuerPublicKey, env)
    /\ validatePublicInputs(body.publicInputs)

\* the handler with the time of the call hashed into the digest
\* performCryptographicVerification looks at: the digit read changes with the clock
handlerTimed(method, body, env, lastDigit, clock) ==
    IF method = "OPTIONS"
    THEN [status |-> 200, json |-> FALSE, error |-> "", isValid |-> FALSE,
          message |-> "", verifiedAt |-> 0]
    ELSE IF method # "POST"
    THEN [status |-> 405, json |-> TRUE, error |-> MethodNotAllowed, isValid |-> FALSE,
          message |-> OnlyPost, verifiedAt |-> 0]
    ELSE IF missingFields(body)
    THEN [status |-> 400, json |-> TRUE, error |-> "", isValid |-> FALSE,
          message |-> MissingFields, verifiedAt |-> clock]
    ELSE LET verificationResult == verifyZKProof(body, env, (lastDigit + clock) % 16)
         IN  [status |-> 200, json |-> TRUE, error |-> "",
              isValid |-> verificationResult.isValid,
              message |-> verificationResult.message, verifiedAt |-> clock]

\* the response the handler sends: its status, whether it has a JSON body, and
\* the body's fields
handler(method, body, env, lastDigit, clock) ==
    IF method = "OPTIONS"
    THEN [status |-> 200, json |-> FALSE, error |-> "", isValid |-> FALSE,
          message |-> "", verifiedAt |-> 0]
    ELSE IF method # "POST"
    THEN [status |-> 405, json |-> TRUE, error |-> MethodNotAllowed, isValid |-> FALSE,
          message |-> OnlyPost, verifiedAt |-> 0]
    ELSE IF missingFields(body)
    THEN [status |-> 400, json |-> TRUE, error |-> "", isValid |-> FALSE,
          message |-> MissingFields, verifiedAt |-> clock]
    ELSE LET verificationResult == verifyZKProof(body, env, lastDigit)
         IN  [status |-> 200, json |-> TRUE, error |-> "",
              isValid |-> verificationResult.isValid,
              message |-> verificationResult.message, verifiedAt |-> clock]

(***************************************************************************)
(* src/unnamed/part_002: the issuance endpoint                             *)
(***************************************************************************)
Unauthorized == "Unauthorized"
AuthorizationRequired == "Valid authorization required"
InvalidRequest == "Invalid request"
MissingDiplomaFields == "Missing required diploma data fields"
ListNotAnArray == "diplomaDataList must be a non-empty array"
EntryMissingFields == "Each diploma data entry must have all required fields"
UnknownAction ==
    "Unknown action. Supported actions: generate-keys, issue-credential, batch-issue"
InternalServerError == "Internal server error"
FailedToProcess == "Failed to process credential request"
KeysGenerated == "Private key generated (store securely - not returned)"
CredentialIssued == "Credential issued successfully"
IssuedOutOf == "Issued ${credentials.length} out of ${diplomaDataList.length} credentials"

\* one of the four required fields of a diploma data object is empty
lacksRequiredField(diplomaData) ==
    \/ diplomaData.degree = <<>>
    \/ diplomaData.school = <<>>
    \/ diplomaData.graduationDate = <<>>
    \/ diplomaData.studentId = <<>>

\* the response of the issuance endpoint: its status, whether it has a JSON
\* body, the fields of the body, and keysUsed, the key pairs the call generated
issuerResponse(status, error, message) ==
    [status |-> status, json |-> TRUE, error |-> error, message |-> message,
     success |-> FALSE, publicKey |-> <<>>, credentials |-> <<>>, errors |-> <<>>,
     attempted |-> 0, keysUsed |-> 0]

\* what the second loop of the batch-issue branch does with r, the outcome of
\* issueCredential on entry i; errors holds the indices, counted from 0, of the
\* entries issueCredential threw for
RECURSIVE issueEachFrom(_, _, _, _, _, _, _)
issueEachStep(diplomaDataList, i, issuerPrivateKey, keyId, clock, credentials, errors, r) ==
    IF r.ok
    THEN issueEachFrom(diplomaDataList, i + 1, issuerPrivateKey, keyId + 1, clock,
                       Append(credentials, r.credential), errors)
    ELSE issueEachFrom(diplomaDataList, i + 1, issuerPrivateKey, keyId, clock,
                       credentials, Append(errors, i - 1))

\* the second loop of the batch-issue branch from entry i on
issueEachFrom(diplomaDataList, i, issuerPrivateKey, keyId, clock, credentials, errors) ==
    IF i > Len(diplomaDataList)
    THEN [credentials |-> credentials, errors |-> errors]
    ELSE issueEachStep(diplomaDataList, i, issuerPrivateKey, keyId, clock, credentials, errors,
                       issueEntry(diplomaDataList[i], issuerPrivateKey, keyId, clock))

\* the response to issue-credential, r the outcome of issueCredential
issueCredentialResponse(r) ==
    IF ~r.ok
    THEN [issuerResponse(500, InternalServerError, FailedToProcess) EXCEPT !.attempted = 1]
    ELSE [issuerResponse(200, "", CredentialIssued) EXCEPT
             !.success = TRUE, !.credentials = <<r.credential>>,
             !.attempted = 1, !.keysUsed = 1]

\* the entries of a list the first loop of the batch-issue branch stops at
badEntries(diplomaDataList) ==
    {i \in 1..Len(diplomaDataList) :
        \/ diplomaDataList[i] = Absent
        \/ lacksRequiredField(diplomaDataList[i][1])}

\* the response to batch-issue for a non-empty list, bad its bad entries and r the
\* outcome of the second loop: the first loop throws a TypeError on a null entry
\* and responds 400 on an entry with an empty required field
batchIssueResponse(diplomaDataList, bad, r) ==
    IF bad # {} /\ diplomaDataList[CHOOSE i \in bad : \A j \in bad : i <= j] = Absent
    THEN issuerResponse(500, InternalServerError, FailedToProcess)
    ELSE IF bad # {}
    THEN issuerResponse(400, InvalidRequest, EntryMissingFields)
    ELSE [issuerResponse(200, "", IssuedOutOf) EXCEPT
             !.success = (r.errors = <<>>),
             !.credentials = r.credentials,
             !.errors = r.errors,
             !.attempted = Len(diplomaDataList),
             !.keysUsed = Len(r.credentials)]

\* authorization: the request has a non-empty Authorization header;
\* issuerPrivateKey: process.env.ISSUER_PRIVATE_KEY, Absent when it is not set;
\* body.diplomaData and body.diplomaDataList are Absent when the body has no such
\* field; keyId, clock as for issueCredential
issuerHandler(method, authorization, issuerPrivateKey, body, keyId, clock) ==
    IF method = "OPTIONS"
    THEN [issuerResponse(200, "", "") EXCEPT !.json = FALSE]
    ELSE IF method # "POST"
    THEN issuerResponse(405, MethodNotAllowed, OnlyPost)
    ELSE IF ~authorization \/ ~TruthyString(issuerPrivateKey)
    THEN issuerResponse(401, Unauthorized, AuthorizationRequired)
    ELSE IF body.action = "generate-keys"
    THEN [issuerResponse(200, "", KeysGenerated) EXCEPT
             !.success = TRUE, !.publicKey = generateKeyPair(keyId).publicKey,
             !.keysUsed = 1]
    ELSE IF body.action = "issue-credential"
    THEN IF body.diplomaData = Absent \/ lacksRequiredField(body.diplomaData[1])
         THEN issuerResponse(400, InvalidRequest, MissingDiplomaFields)
         ELSE issueCredentialResponse(
                  issueCredential(body.diplomaData[1], issuerPrivateKey[1], keyId, clock))
    ELSE IF body.action = "batch-issue"
    THEN IF body.diplomaDataList = Absent \/ body.diplomaDataList[1] = <<>>
         THEN issuerResponse(400, InvalidRequest, ListNotAnArray)
         ELSE batchIssueResponse(
                  body.diplomaDataList[1], badEntries(body.diplomaDataList[1]),
                  issueEachFrom(body.diplomaDataList[1], 1, issuerPrivateKey[1], keyId, clock,
                                <<>>, <<>>))
    ELSE issuerResponse(400, InvalidRequest, UnknownAction)

(***************************************************************************)
(* The two transport handlers, src/api/verify.ts and src/unnamed/part_002, *)
(* as what each does with res: the headers it sets, the responses it       *)
(* sends, and the core operations it calls on the way.                     *)
(***************************************************************************)
CorsHeaders ==
    {<<"Access-Control-Allow-Origin", "*">>,
     <<"Access-Control-Allow-Methods", "POST, OPTIONS">>,
     <<"Access-Control-Allow-Headers", "Content-Type, Authorization">>}

InternalVerificationError == "Internal verification error"

\* a response as res is given it: the status, whether json() or end() closed it,
\* and the error and message of its body
Sent(r) == [status |-> r.status, json |-> r.json, error |-> r.error, message |-> r.message]

\* the body of a request to the issuance endpoint that names no action
NoBody == [action |-> "", diplomaData |-> Absent, diplomaDataList |-> Absent]

\* the handler of api/verify.ts with the headers set after the method checks
verifyExchangeLateHeaders(method, body, env, lastDigit, clock) ==
    [headers |-> IF method = "POST" THEN CorsHeaders ELSE {},
     sent |->
        IF method = "POST" /\ body = Absent
        THEN <<[status |-> 500, json |-> TRUE, error |-> "",
                message |-> InternalVerificationError]>>
        ELSE <<Sent(handler(method, IF body = Absent THEN NoRequest ELSE body[1],
                            env, lastDigit, clock))>>,
     core |->
        IF method = "POST" /\ body # Absent /\ ~missingFields(body[1])
        THEN <<"verifyZKProof">>
        ELSE <<>>]

\* the handler of api/verify.ts without its try block: the TypeError of reading
\* a field of a missing body ends the handler before any response
verifyExchangeUncaught(method, body, env, lastDigit, clock) ==
    [headers |-> CorsHeaders,
     sent |->
        IF method = "POST" /\ body = Absent
        THEN <<>>
        ELSE <<Sent(handler(method, IF body = Absent THEN NoRequest ELSE body[1],
                            env, lastDigit, clock))>>,
     core |->
        IF method = "POST" /\ body # Absent /\ ~missingFields(body[1])
        THEN <<"verifyZKProof">>
        ELSE <<>>]

\* the handler of api/verify.ts on a request; body is Absent when the request
\* has none: reading verificationRequest.proof then throws a TypeError inside
\* the try block, and the catch block answers 500
verifyExchange(method, body, env, lastDigit, clock) ==
    [headers |-> CorsHeaders,
     sent |->
        IF method = "POST" /\ body = Absent
        THEN <<[status |-> 500, json |-> TRUE, error |-> "",
                message |-> InternalVerificationError]>>
        ELSE <<Sent(handler(method, IF body = Absent THEN NoRequest ELSE body[1],
                            env, lastDigit, clock))>>,
     core |->
        IF method = "POST" /\ body # Absent /\ ~missingFields(body[1])
        THEN <<"verifyZKProof">>
        ELSE <<>>]

\* the request passes the check of the Authorization header and of
\* ISSUER_PRIVATE_KEY
authorized(authorization, issuerPrivateKey) ==
    authorization /\ TruthyString(issuerPrivateKey)

\* the core operations behind the response r to a request for action
coreCalls(action, r) ==
    IF action = "generate-keys" /\ r.keysUsed = 1 THEN <<"generateIssuerKeys">>
    ELSE [i \in 1..r.attempted |-> "issueCredential"]

\* what the issuance handler does with res, r the outcome of issuerHandler on
\* the request (on a body that names no action when the request has none)
issuerExchangeOf(method, isAuthorized, body, r) ==
    [headers |-> CorsHeaders,
     sent |->
        IF method = "POST" /\ isAuthorized /\ body = Absent
        THEN <<Sent(issuerResponse(500, InternalServerError, FailedToProcess))>>
        ELSE <<Sent(r)>>,
     core |->
        IF method = "POST" /\ isAuthorized /\ body # Absent
        THEN coreCalls(body[1].action, r)
        ELSE <<>>,
     keysUsed |-> IF body = Absent THEN 0 ELSE r.keysUsed]

\* the issuance handler reading the action of the body before it looks at the
\* Authorization header
issuerExchangeBodyFirst(method, authorization, issuerPrivateKey, body, keyId, clock) ==
    issuerExchangeOf(method,
                     IF body = Absent THEN TRUE
                     ELSE authorized(authorization, issuerPrivateKey),
                     body,
                     issuerHandler(method, authorization, issuerPrivateKey,
                                   IF body = Absent THEN NoBody ELSE body[1], keyId, clock))

\* the handler of the issuance endpoint on a request; body is Absent when the
\* request has none: reading requestBody.action then throws a TypeError inside
\* the try block, after the authorization check, and the catch block answers 500
issuerExchange(method, authorization, issuerPrivateKey, body, keyId, clock) ==
    issuerExchangeOf(method, authorized(authorization, issuerPrivateKey), body,
                     issuerHandler(method, authorization, issuerPrivateKey,
                                   IF body = Absent THEN NoBody ELSE body[1], keyId, clock))

(***************************************************************************)
(* src/src/services/aleoService.ts: the AleoService singleton over its     *)
(* provider.  A call runs up to its await when it is made; what follows     *)
(* the await is a task of the microtask queue, run in the order queued.    *)
(* The provider initializeProvider builds wraps a MockWallet, whose        *)
(* connect settles when its timer fires, which is when no microtask is     *)
(* pending; a provider whose connect rejects is allowed for as well, so    *)
(* that the catch block of connect is reached.                             *)
(***************************************************************************)
MockAddress == "aleo1qnr4dkkvkgfqph0vzc3y6z2eu975wnpz2925ntjccd5cfqxtyu8s7pyjh9"

\* connected, address: the fields of AleoService; stored: localStorage, its keys
\* aleo_wallet_connected and aleo_wallet_address; mock: MockWallet.connected;
\* timers: the provider.connect() calls whose delay has not passed;
\* microtasks: the continuations queued; calls: the calls made so far;
\* last: how the call that completed last ended; quiet: a disconnect() has
\* resolved and neither connect() nor restoreConnection() was called since
NoWallet ==
    [connected |-> FALSE, address |-> Absent,
     stored |-> [connected |-> Absent, address |-> Absent],
     mock |-> FALSE, timers |-> 0, microtasks |-> <<>>, calls |-> 0, last |-> "none",
     quiet |-> FALSE]

\* connect() up to its await: provider.connect() has started its delay
connectCalled(w) ==
    [w EXCEPT !.timers = w.timers + 1, !.calls = w.calls + 1, !.quiet = FALSE]

\* the delay of a provider.connect() has passed: MockWallet.connect sets its
\* flag and resolves with the address, or the provider rejects
providerConnectSettles(w, rejects) ==
    IF rejects
    THEN [w EXCEPT !.timers = w.timers - 1,
                   !.microtasks = Append(w.microtasks, [op |-> "connect", ok |-> FALSE,
                                                        address |-> Absent,
                                                        savedAddress |-> Absent])]
    ELSE [w EXCEPT !.timers = w.timers - 1, !.mock = TRUE,
                   !.microtasks = Append(w.microtasks, [op |-> "connect", ok |-> TRUE,
                                                        address |-> Some(MockAddress),
                                                        savedAddress |-> Absent])]

\* disconnect() up to its await: MockWallet.disconnect has cleared its flag
disconnectCalled(w) ==
    [w EXCEPT !.mock = FALSE, !.calls = w.calls + 1,
              !.microtasks = Append(w.microtasks, [op |-> "disconnect", ok |-> TRUE,
                                                   address |-> Absent,
                                                   savedAddress |-> Absent])]

\* restoreConnection() up to its await, or to its end when localStorage holds
\* no connection: MockWallet.getAddress throws unless its flag is set
restoreCalled(w) ==
    IF w.stored.connected = Some("true") /\ w.stored.address \notin {Absent, Some("")}
    THEN [w EXCEPT !.calls = w.calls + 1, !.quiet = FALSE,
                   !.microtasks =
                       Append(w.microtasks,
                              [op |-> "restore", ok |-> w.mock,
                               address |-> IF w.mock THEN Some(MockAddress) ELSE Absent,
                               savedAddress |-> w.stored.address])]
    ELSE [w EXCEPT !.calls = w.calls + 1, !.quiet = FALSE, !.last = "notRestored"]

\* the continuation of disconnect() that clears localStorage and leaves the
\* fields of the service as they are
afterAwaitFieldsKept(w, task) ==
    IF task.op = "connect" /\ task.ok
    THEN [w EXCEPT !.connected = TRUE, !.address = task.address,
                   !.stored = [connected |-> Some("true"), address |-> task.address],
                   !.last = "connected"]
    ELSE IF task.op = "connect"
    THEN [w EXCEPT !.connected = FALSE, !.address = Absent, !.last = "refused"]
    ELSE IF task.op = "disconnect"
    THEN [w EXCEPT !.stored = [connected |-> Absent, address |-> Absent],
                   !.last = "disconnected", !.quiet = TRUE]
    ELSE IF task.ok /\ task.address = task.savedAddress
    THEN [w EXCEPT !.connected = TRUE, !.address = task.address, !.last = "restored"]
    ELSE [w EXCEPT !.last = "notRestored"]

\* what a call does after its await, task what it awaited: connect() after
\* provider.connect(), in its try or its catch block; disconnect() after
\* provider.disconnect(); restoreConnection() after provider.getAddress()
afterAwait(w, task) ==
    IF task.op = "connect" /\ task.ok
    THEN [w EXCEPT !.connected = TRUE, !.address = task.address,
                   !.stored = [connected |-> Some("true"), address |-> task.address],
                   !.last = "connected"]
    ELSE IF task.op = "connect"
    THEN [w EXCEPT !.connected = FALSE, !.address = Absent, !.last = "refused"]
    ELSE IF task.op = "disconnect"
    THEN [w EXCEPT !.connected = FALSE, !.address = Absent,
                   !.stored = [connected |-> Absent, address |-> Absent],
                   !.last = "disconnected", !.quiet = TRUE]
    ELSE IF task.ok /\ task.address = task.savedAddress
    THEN [w EXCEPT !.connected = TRUE, !.address = task.address, !.last = "restored"]
    ELSE [w EXCEPT !.last = "notRestored"]

(***************************************************************************)
(* Inputs.                                                                 *)
(***************************************************************************)
\* the sample of SampleCredentialGenerator.tsx and createSampleCredential
sampleData ==
    [degree |-> SampleDegree,
     school |-> SampleSchool,
     graduationDate |-> Date2023,
     studentId |-> StudentId9,
     gpa |-> Some(385)]

\* U+5B66 U+58EB, a degree title outside Latin-1
DegreeCjk == <<Ch(23398), Ch(22763)>>

Degrees == {DegreeBSc, DegreeBA, DegreeCjk}
Schools == {SchoolMIT, SchoolETH}
GraduationDates == {Date2023, Date2024}
StudentIds == {StudentId9, StudentId1}
Gpas == {Absent, Some(0), Some(385), Some(400)}

\* the diploma data the issuer is given
IssueDiplomas ==
    [degree : {DegreeBSc, DegreeCjk},
     school : {SchoolMIT},
     graduationDate : {Date2023},
     studentId : {StudentId9},
     gpa : {Absent, Some(0), Some(385)}]

\* the private inputs a holder may type
PrivateInputs ==
    [degree : Degrees, school : Schools, graduationDate : GraduationDates,
     studentId : StudentIds, gpa : Gpas]

\* the private inputs that differ from d in at most one field
Alterations(d) ==
    {d}
    \cup {[d EXCEPT !.degree = v] : v \in Degrees}
    \cup {[d EXCEPT !.school = v] : v \in Schools}
    \cup {[d EXCEPT !.graduationDate = v] : v \in GraduationDates}
    \cup {[d EXCEPT !.studentId = v] : v \in StudentIds}
    \cup {[d EXCEPT !.gpa = v] : v \in Gpas}

\* private key texts that are no PKCS#8 key
MalformedKeys == {KeyText00}

\* the private keys generateIssuerKeys has handed to the issuer
IssuerPrivateKeys(ids) == {generateKeyPair(id).privateKey : id \in ids}

\* the credential c a holder has, and c with a field changed
CredentialVariants(c) ==
    {c,
     [c EXCEPT !.signature = TextAb],
     [c EXCEPT !.signature = <<>>],
     [c EXCEPT !.issuerPublicKey = TextK],
     [c EXCEPT !.hashedData.gpaHash = Some(<<>>)],
     [c EXCEPT !.hashedData.gpaHash = Absent],
     [c EXCEPT !.hashedData.gpaHash = Some(hashData(TextFour))]}

\* the credential files a holder may pick, given the credential c they hold
CredentialFiles(c) == {exportCredential(o) : o \in CredentialVariants(c)}

\* the objects JSON.parse can give back for those files
CredentialObjects(c) == {ParsedOf(o) : o \in CredentialVariants(c)}

\* the diploma data issued in the runs that go on to verification
VerifyDiplomas ==
    [degree : {DegreeBSc},
     school : {SchoolMIT},
     graduationDate : {Date2023},
     studentId : {StudentId9},
     gpa : {Some(385)}]

\* the holder types the issued data, or the issued data with one field altered
AsIssued == [d \in IssueDiplomas \cup VerifyDiplomas \cup {sampleData} |-> {d}]
Altered == [d \in IssueDiplomas \cup VerifyDiplomas \cup {sampleData} |-> Alterations(d)]

\* the public key of the pair a PKCS#8 private key text belongs to
PublicKeyOf(privateKey) == generateKeyPair(privateKey[1].v).publicKey

\* the request ProofGenerator.handleVerifyProof builds from a proof response
\* and the issuerPublicKey of the credential
ProofRequest(response, issuerPublicKey) ==
    [proof |-> response.proof,
     publicInputs |-> Some(response.publicInputs),
     verificationKey |-> response.verificationKey,
     issuerPublicKey |-> issuerPublicKey]

\* the requests a caller may send for a proof response: that request under
\* several issuer keys
KeyedRequests(response, recordedKey, suppliedKey) ==
    {ProofRequest(response, key) : key \in {recordedKey, suppliedKey, TextK, <<>>}}

\* that request with one field spoilt
SpoiltRequests(response, recordedKey) ==
    LET r == ProofRequest(response, recordedKey)
    IN  {[r EXCEPT !.proof = <<>>],
         [r EXCEPT !.proof = ProofPrefix],
         [r EXCEPT !.publicInputs = Absent],
         [r EXCEPT !.publicInputs = Some(<<>>)],
         [r EXCEPT !.publicInputs = Some(<< <<>> >>)],
         [r EXCEPT !.verificationKey = Substring0(recordedKey, VkKeyPrefixLen)]}

\* the values process.env.TRUSTED_ISSUERS may have where the verifier runs
TrustedIssuersSettings(recordedKey) ==
    {Absent, Some(<<>>), Some(TextK \o Comma \o recordedKey)}

\* the calls the verification endpoint may get
EndpointCalls(response, recordedKey, suppliedKey) ==
    [method : {"POST"}, body : KeyedRequests(response, recordedKey, suppliedKey),
     env : TrustedIssuersSettings(recordedKey)]
    \cup [method : {"POST"}, body : SpoiltRequests(response, recordedKey), env : {Absent}]
    \cup [method : {"GET", "OPTIONS"}, body : {ProofRequest(response, recordedKey)},
          env : {Absent}]

\* diploma data with an empty required field, and with a gpa above 4
DiplomaBA ==
    [degree |-> DegreeBA, school |-> SchoolETH, graduationDate |-> Date2024,
     studentId |-> StudentId1, gpa |-> Absent]
DiplomaNoDegree == [sampleData EXCEPT !.degree = <<>>]
DiplomaGpa5 == [sampleData EXCEPT !.gpa = Some(500)]

\* the diploma data the issuing functions and the issuance endpoint are given
IssuanceDiplomas == {sampleData, DiplomaBA, DiplomaNoDegree, DiplomaGpa5}

\* the entries of a diplomaDataList: diploma data, or null
BatchEntries == {Some(sampleData), Some(DiplomaBA), Some(DiplomaNoDegree), Absent}

\* the lists of at most MaxBatch entries
BatchLists == UNION {[1..n -> BatchEntries] : n \in 0..MaxBatch}

\* the key pair whose private key the deployment keeps in ISSUER_PRIVATE_KEY
EnvKeyPair == generateKeyPair(0)

\* the values process.env.ISSUER_PRIVATE_KEY may have
IssuerKeySettings == {Absent, Some(<<>>), Some(KeyText00), Some(EnvKeyPair.privateKey)}

\* the bodies of the requests the issuance endpoint may get
IssuanceBodies ==
    [action : {"generate-keys", "revoke"}, diplomaData : {Absent},
     diplomaDataList : {Absent}]
    \cup [action : {"issue-credential"},
          diplomaData : {Absent} \cup {Some(d) : d \in IssuanceDiplomas},
          diplomaDataList : {Absent}]
    \cup [action : {"batch-issue"}, diplomaData : {Absent},
          diplomaDataList : {Absent} \cup {Some(l) : l \in BatchLists}]

\* the calls the issuance endpoint may get
IssuanceCalls ==
    [method : {"POST"}, authorization : {TRUE},
     issuerPrivateKey : {Some(KeyText00), Some(EnvKeyPair.privateKey)},
     body : IssuanceBodies]
    \cup [method : {"POST"}, authorization : BOOLEAN, issuerPrivateKey : IssuerKeySettings,
          body : [action : {"issue-credential"}, diplomaData : {Some(sampleData)},
                  diplomaDataList : {Absent}]]
    \cup [method : {"GET", "OPTIONS"}, authorization : {TRUE},
          issuerPrivateKey : {Some(EnvKeyPair.privateKey)},
          body : [action : {"issue-credential"}, diplomaData : {Some(sampleData)},
                  diplomaDataList : {Absent}]]

\* the credential SampleCredentialGenerator.handleGenerateCredential builds: issued
\* for the sample data, with the public key of the signing pair written over the
\* recorded one
SignedSample ==
    [issueCredential(sampleData, generateKeyPair(1).privateKey, 2, 0).credential EXCEPT
        !.issuerPublicKey = generateKeyPair(1).publicKey]

\* a credential as a value that may lack its hashedData
AsValue(credential) == Some([credential EXCEPT !.hashedData = Some(credential.hashedData)])

\* the digit values a pair of a signature may hold, and the characters written
\* over one of them: 0 7 a f A F g, the space, - and x
SampledDigits == {0, 7, 10, 15}
EditChars == {48, 55, 97, 102, 65, 70, 103, 32, 45, 120}

\* the texts that differ in one character from the lower-case spelling of a pair
OneCharEdits(pair) ==
    {[<<HexChar(pair[1]), HexChar(pair[2])>> EXCEPT ![h] = c] : h \in {1, 2}, c \in EditChars}
        \ {<<HexChar(pair[1]), HexChar(pair[2])>>}

\* the signature texts that differ in one character from the signature text block
SignatureEdits(block) ==
    UNION {{Respell(block, at, <<hi, lo>>, text) : text \in OneCharEdits(<<hi, lo>>)} :
              at \in {1, SignatureHexLen \div 2}, hi \in SampledDigits, lo \in SampledDigits}

\* the values verifyCredential is called on: the signed sample, the sample with
\* one character of its signature replaced, and malformed values
VerifyValues ==
    {AsValue(SignedSample), Absent,
     Some([SignedSample EXCEPT !.hashedData = Absent]),
     AsValue([SignedSample EXCEPT !.signature = <<>>]),
     AsValue([SignedSample EXCEPT !.signature = TextAb]),
     AsValue([SignedSample EXCEPT !.signature = TextK])}
    \cup {AsValue([SignedSample EXCEPT !.signature = <<t>>]) :
             t \in SignatureEdits(SignedSample.signature[1])}

VerifyInputs ==
    [op : {"verifyCredential"}, done : {FALSE}, value : VerifyValues,
     issuerPublicKey : {SignedSample.issuerPublicKey, <<>>, TextK}, result : {FALSE}]

\* the parsed objects of the files importCredential and the uploader are given:
\* the signed sample with and without gpaHash, and the sample without one of its
\* properties, without one of its hashes, or with an empty signature
ImportObjects ==
    LET o == ParsedOf(SignedSample)
    IN  {o,
         [o EXCEPT !.hashedData[1].gpaHash = Absent],
         [o EXCEPT !.hashedData = Absent],
         [o EXCEPT !.signature = Absent],
         [o EXCEPT !.issuerPublicKey = Absent],
         [o EXCEPT !.timestamp = Absent],
         [o EXCEPT !.hashedData[1].degreeHash = Absent],
         [o EXCEPT !.hashedData[1].schoolHash = Absent],
         [o EXCEPT !.hashedData[1].dateHash = Absent],
         [o EXCEPT !.hashedData[1].studentIdHash = Absent],
         [o EXCEPT !.hashedData =
             Some([degreeHash |-> Absent, schoolHash |-> Absent, dateHash |-> Absent,
                   studentIdHash |-> Absent, gpaHash |-> Absent])],
         [o EXCEPT !.signature = Some(<<>>)],
         [o EXCEPT !.issuerPublicKey = Some(<<>>)]}

\* those files, indented or not, and a file that is no JSON text
ImportFiles ==
    {JsonStringify(o, pretty) : o \in ImportObjects, pretty \in BOOLEAN} \cup {TextAb}

NoImport ==
    [ok |-> FALSE, error |-> "", credential |-> ParsedOf(NoCredential)]

ImportInputs ==
    [op : {"importCredential", "handleFileSelect"}, done : {FALSE},
     fileContent : ImportFiles, result : {NoImport}]

\* the credentials exportCredential is given: issued for diploma data with and
\* without gpa, at each tick of the clock
ValidCredentials ==
    {[issueCredential(d, generateKeyPair(1).privateKey, 2, t).credential EXCEPT
         !.issuerPublicKey = generateKeyPair(1).publicKey] :
        d \in IssueDiplomas \cup {sampleData, DiplomaBA}, t \in 0..MaxTick}

RoundTripInputs ==
    [op : {"exportCredential"}, done : {FALSE}, credential : ValidCredentials,
     result : {NoImport}]

\* the objects JSON.parse may give back for an exported credential
RoundTripObjects ==
    UNION {CredentialObjects(c) : c \in ValidCredentials} \cup ImportObjects

\* the lists of one to MaxFields fields, of the fields '', 'k' and 'k|k'
FieldLists == UNION {[1..n -> {<<>>, TextK, TextK \o Pipe \o TextK}] : n \in 1..MaxFields}

FieldsInputs ==
    [op : {"hashMultipleFields"}, done : {FALSE}, fields : FieldLists, result : {<<>>}]

\* the lists of at most MaxHashes digests
HashLists ==
    UNION {[1..n -> {hashData(TextK), hashData(TextAb), hashData(TextFour)}] :
              n \in 0..MaxHashes}

MerkleInputs ==
    [op : {"createMerkleRoot"}, done : {FALSE}, hashes : HashLists, result : {NoRoot}]

\* the diploma data whose commitments are computed by the issuer and again by
\* the proof generator
CommitmentInputs ==
    [op : {"commitments"}, done : {FALSE}, diplomaData : PrivateInputs,
     stored : {NoHashedData}, recomputed : {NoHashedData}, again : {NoHashedData},
     mismatch : {FALSE}]

\* the proof generateProof makes from the signed sample and the sample data
SampleProof ==
    generateProof([credential |-> SignedSample, privateInputs |-> sampleData], 0).response

\* request methods other than POST
OtherMethods == {"OPTIONS", "GET", "PUT", "DELETE"}

\* the requests the verification endpoint may get, with and without a body
VerificationRequests ==
    [method : {"POST"},
     body : {Absent}
            \cup {Some(b) : b \in KeyedRequests(SampleProof, SignedSample.issuerPublicKey,
                                                 SignedSample.issuerPublicKey)}
            \cup {Some(b) : b \in SpoiltRequests(SampleProof, SignedSample.issuerPublicKey)},
     env : {Absent, Some(TextK)}]
    \cup [method : OtherMethods,
          body : {Absent, Some(ProofRequest(SampleProof, SignedSample.issuerPublicKey))},
          env : {Absent}]

\* the requests the issuance endpoint may get, with and without a body, an
\* Authorization header and a configured key
IssuanceRequests ==
    [method : {"POST"}, authorization : BOOLEAN, issuerPrivateKey : IssuerKeySettings,
     body : {Absent} \cup {Some(b) : b \in IssuanceBodies}]
    \cup [method : OtherMethods, authorization : BOOLEAN,
          issuerPrivateKey : {Absent, Some(EnvKeyPair.privateKey)},
          body : {Absent,
                  Some([action |-> "issue-credential", diplomaData |-> Some(sampleData),
                        diplomaDataList |-> Absent])}]

\* a second credential, of another issuer, for other diploma data, issued later
OtherCredential ==
    [issueCredential(DiplomaBA, generateKeyPair(0).privateKey, 2, MaxTick).credential EXCEPT
        !.issuerPublicKey = generateKeyPair(0).publicKey]

\* the credentials a holder uploads, and the private inputs they type
UiCredentials == {SignedSample, OtherCredential}
UiPrivateInputs == {sampleData, DiplomaBA}

\* the last hex digits a digest is given where verifications are repeated: one
\* that performCryptographicVerification accepts and one that it does not
SampledTails == {0, 1}

\* the requests verifyZKProof is given: each field as in the request of the
\* sample proof, or spoilt; the trust policy naming the issuer key or another;
\* lastDigit the digit the cryptographic check reads, flipped the verdict
\* had it read the other one
OrderInputs ==
    [op : {"verifyZKProof"}, done : {FALSE},
     request : [proof : {SampleProof.proof, ProofPrefix, TextAb},
                publicInputs : {Some(SampleProof.publicInputs), Some(<<>>),
                                Some(<< <<>> >>), Absent},
                verificationKey : {SampleProof.verificationKey, TextK},
                issuerPublicKey : {SignedSample.issuerPublicKey, TextK, <<>>}],
     env : {Absent, Some(TextK)},
     lastDigit : SampledTails,
     result : {[isValid |-> FALSE, message |-> ""]},
     flipped : {[isValid |-> FALSE, message |-> ""]}]

\* the requests verified again and again: that of the sample proof, under
\* several issuer keys and with a field spoilt
RetryRequests ==
    KeyedRequests(SampleProof, SignedSample.issuerPublicKey, SignedSample.issuerPublicKey)
    \cup {[ProofRequest(SampleProof, SignedSample.issuerPublicKey) EXCEPT !.proof = ProofPrefix],
          [ProofRequest(SampleProof, SignedSample.issuerPublicKey) EXCEPT
              !.publicInputs = Some(<<>>)]}

(***************************************************************************)
(* State.                                                                  *)
(***************************************************************************)
NoIssueCall ==
    [called |-> FALSE, diplomaData |-> sampleData, issuerPrivateKey |-> <<>>,
     ok |-> FALSE, error |-> "", credential |-> NoCredential]

\* origin: how the holder came by the credential; diplomaData: the data it was issued for
NoHeld ==
    [origin |-> "none", credential |-> NoCredential, diplomaData |-> sampleData,
     issuerPrivateKey |-> <<>>]

\* the last generateProof call on the held credential
NoProofCall ==
    [called |-> FALSE, privateInputs |-> sampleData, clock |-> 0,
     ok |-> FALSE, error |-> "", response |-> NoProofResponse]

\* entry: "service" for proofService.verifyProof, "endpoint" for the handler of
\* api/verify.ts; env: TRUSTED_ISSUERS as the handler reads it
NoVerifyCall ==
    [called |-> FALSE, entry |-> "none", method |-> "", request |-> NoRequest,
     env |-> Absent, status |-> 0, json |-> FALSE, error |-> "", isValid |-> FALSE,
     message |-> "", verifiedAt |-> 0]

\* entry: "batch" for batchIssueCredentials, "endpoint" for the handler of the
\* issuance endpoint; attempted: the entries issueCredential was called for
NoIssuanceCall ==
    [called |-> FALSE, entry |-> "none", method |-> "", action |-> "",
     authorization |-> FALSE, issuerPrivateKey |-> Absent, diplomaData |-> Absent,
     diplomaDataList |-> Absent, ok |-> FALSE, status |-> 0, error |-> "",
     credentials |-> <<>>, attempted |-> 0, errors |-> <<>>]

NoPureCall == [op |-> "none", done |-> FALSE]

\* endpoint: "verify" for the handler of api/verify.ts, "issue" for the handler
\* of the issuance endpoint; headers: what res.setHeader was given; sent: the
\* responses sent through res, in order; core: the core operations the handler
\* called
NoExchange ==
    [endpoint |-> "none", method |-> "", authorization |-> FALSE,
     issuerPrivateKey |-> Absent, body |-> Absent, env |-> Absent, headers |-> {},
     sent |-> <<>>, core |-> <<>>]

\* a verification: the function called, its request, TRUSTED_ISSUERS where it
\* ran, the clock when it ran, and the verdict
NoVerdict ==
    [called |-> FALSE, entry |-> "none", request |-> NoRequest, env |-> Absent,
     at |-> 0, isValid |-> FALSE, message |-> ""]

NoVerdicts == [first |-> NoVerdict, last |-> NoVerdict, between |-> FALSE]

\* credential and appStatus are the state of App, the other fields that of
\* ProofGenerator, which App renders while a credential is loaded (the wallet
\* stays connected); proofOf is the credential the stored proof was generated
\* from; inFlight the request of the generateProof call handleGenerateProof
\* awaits; submitted the last request handleVerifyProof made
NoUi ==
    [credential |-> Absent, appStatus |-> "idle", proofStatus |-> "idle",
     proofResponse |-> Absent, proofOf |-> Absent, verificationResult |-> Absent,
     inFlight |-> Absent, submitted |-> Absent]


Init ==
    /\ nextKey = 0
    /\ issuerKeys = {}
    /\ now = 0
    /\ issueCall = NoIssueCall
    /\ held = NoHeld
    /\ proofCall = NoProofCall
    /\ verifyCall = NoVerifyCall
    /\ sha256Tail = {}
    /\ issuanceCall = NoIssuanceCall
    /\ pureCall = NoPureCall
    /\ exchange = NoExchange
    /\ ui = NoUi
    /\ wallet = NoWallet
    /\ verdicts = NoVerdicts

\* time passes
Tick ==
    /\ now < MaxTick
    /\ now' = now + 1
    /\ UNCHANGED <<nextKey, issuerKeys, issueCall, held, proofCall, verifyCall, sha256Tail, issuanceCall, pureCall, exchange, ui, wallet, verdicts>>

\* generateIssuerKeys
GenerateIssuerKeys ==
    /\ nextKey < MaxKeyPairs
    /\ nextKey' = nextKey + 1
    /\ issuerKeys' = {nextKey + 1}
    /\ UNCHANGED <<now, issueCall, held, proofCall, verifyCall, sha256Tail, issuanceCall, pureCall, exchange, ui, wallet, verdicts>>

\* issueCredential(d, sk), whose credential the holder receives; a run follows
\* one credential from its issuance on
Issue(diplomas) ==
    /\ held.origin = "none"
    /\ \E d \in diplomas, sk \in IssuerPrivateKeys(issuerKeys) \cup MalformedKeys :
        LET r == issueCredential(d, sk, nextKey + 1, now)
        IN  /\ r.ok => nextKey < MaxKeyPairs
            /\ nextKey' = IF r.ok THEN nextKey + 1 ELSE nextKey
            /\ issueCall' = [called |-> TRUE, diplomaData |-> d, issuerPrivateKey |-> sk,
                             ok |-> r.ok, error |-> r.error, credential |-> r.credential]
            /\ held' = IF r.ok
                       THEN [origin |-> "issued", credential |-> r.credential,
                             diplomaData |-> d, issuerPrivateKey |-> sk]
                       ELSE NoHeld
            /\ proofCall' = NoProofCall
            /\ UNCHANGED <<issuerKeys, now, verifyCall, sha256Tail, issuanceCall, pureCall, exchange, ui, wallet, verdicts>>

\* SampleCredentialGenerator.handleGenerateCredential
HandleGenerateCredential ==
    /\ held.origin = "none"
    /\ nextKey + 2 <= MaxKeyPairs
    /\ LET issuerKeyPair == generateKeyPair(nextKey + 1)
           r == issueCredential(sampleData, issuerKeyPair.privateKey, nextKey + 2, now)
       IN  /\ nextKey' = nextKey + 2
           /\ issuerKeys' = {nextKey + 1}
           /\ issueCall' = [called |-> TRUE, diplomaData |-> sampleData,
                            issuerPrivateKey |-> issuerKeyPair.privateKey,
                            ok |-> r.ok, error |-> r.error, credential |-> r.credential]
           /\ held' = [origin |-> "sample",
                       credential |-> [r.credential EXCEPT
                                          !.issuerPublicKey = issuerKeyPair.publicKey],
                       diplomaData |-> sampleData,
                       issuerPrivateKey |-> issuerKeyPair.privateKey]
           /\ proofCall' = NoProofCall
    /\ UNCHANGED <<now, verifyCall, sha256Tail, issuanceCall, pureCall, exchange, ui, wallet, verdicts>>

\* the holder loads a file through importCredential
ImportCredential ==
    /\ held.origin \in {"issued", "sample"}
    /\ \E fileContent \in CredentialFiles(held.credential) :
        LET r == importCredential(fileContent, CredentialObjects(held.credential))
        IN  /\ r.ok
            /\ held' = [held EXCEPT !.origin = "loaded",
                                     !.credential = TypedOf(r.credential)]
    /\ proofCall' = NoProofCall
    /\ UNCHANGED <<nextKey, issuerKeys, now, issueCall, verifyCall, sha256Tail, issuanceCall, pureCall, exchange, ui, wallet, verdicts>>

\* CredentialUploader.handleFileUpload
UploadCredential ==
    /\ held.origin \in {"issued", "sample"}
    /\ \E fileContent \in CredentialFiles(held.credential) :
        LET parsed == JsonParse(fileContent, CredentialObjects(held.credential))
        IN  /\ parsed.ok
            /\ validateCredential(parsed.value) = ""
            /\ held' = [held EXCEPT !.origin = "loaded",
                                     !.credential = TypedOf(parsed.value)]
    /\ proofCall' = NoProofCall
    /\ UNCHANGED <<nextKey, issuerKeys, now, issueCall, verifyCall, sha256Tail, issuanceCall, pureCall, exchange, ui, wallet, verdicts>>

\* ProofGenerator.handleGenerateProof: generateProof on the held credential, with
\* the private inputs choices(the data it was issued for) offers
GenerateProof(choices) ==
    /\ held.origin # "none"
    /\ \E p \in choices[held.diplomaData] :
        LET request == [credential |-> held.credential, privateInputs |-> p]
            r == generateProof(request, now)
        IN  proofCall' = [called |-> TRUE, privateInputs |-> p, clock |-> now,
                          ok |-> r.ok, error |-> r.error, response |-> r.response]
    /\ UNCHANGED <<nextKey, issuerKeys, now, issueCall, held, verifyCall, sha256Tail, issuanceCall, pureCall, exchange, ui, wallet, verdicts>>

\* the issuer key a verification request names, and the one the issuer signed with
RecordedKey == held.credential.issuerPublicKey
SuppliedKey == PublicKeyOf(held.issuerPrivateKey)

\* proofService.verifyProof on a request made from the last proof response
VerifyService ==
    /\ proofCall.called /\ proofCall.ok
    /\ \E request \in KeyedRequests(proofCall.response, RecordedKey, SuppliedKey)
                        \cup SpoiltRequests(proofCall.response, RecordedKey) :
        LET r == verifyProof(request, now)
        IN  verifyCall' = [called |-> TRUE, entry |-> "service", method |-> "",
                           request |-> request, env |-> Absent, status |-> 0,
                           json |-> FALSE, error |-> "", isValid |-> r.isValid,
                           message |-> r.message, verifiedAt |-> r.verifiedAt]
    /\ UNCHANGED <<nextKey, issuerKeys, now, issueCall, held, proofCall, sha256Tail, issuanceCall, pureCall, exchange, ui, wallet, verdicts>>

\* the handler of api/verify.ts on a call made from the last proof response.  The
\* last hex digit of a digest not read before may be any; a digest read before
\* ends as it did then.
VerifyEndpoint ==
    /\ proofCall.called /\ proofCall.ok
    /\ \E call \in EndpointCalls(proofCall.response, RecordedKey, SuppliedKey) :
        LET reads == readsDigest(call.method, call.body, call.env)
            data == combinedHashInput(call.body)
            known == {e \in sha256Tail : e.data = data}
        IN  \E lastDigit \in (IF ~reads THEN {0}
                              ELSE IF known # {} THEN {e.digit : e \in known}
                              ELSE HexDigits) :
                LET r == handler(call.method, call.body, call.env, lastDigit, now)
                IN  /\ verifyCall' = [called |-> TRUE, entry |-> "endpoint",
                                      method |-> call.method, request |-> call.body,
                                      env |-> call.env, status |-> r.status,
                                      json |-> r.json, error |-> r.error,
                                      isValid |-> r.isValid, message |-> r.message,
                                      verifiedAt |-> r.verifiedAt]
                    /\ sha256Tail' = IF reads
                                     THEN sha256Tail \cup {[data |-> data, digit |-> lastDigit]}
                                     ELSE sha256Tail
    /\ UNCHANGED <<nextKey, issuerKeys, now, issueCall, held, proofCall, issuanceCall, pureCall, exchange, ui, wallet, verdicts>>

\* batchIssueCredentials(list, sk); a run follows one call of the batch function
\* or of the issuance endpoint
BatchIssue ==
    /\ ~issuanceCall.called
    /\ \E list \in BatchLists,
          sk \in IssuerPrivateKeys(issuerKeys) \cup {EnvKeyPair.privateKey} \cup MalformedKeys :
        LET r == batchIssueCredentials(list, sk, nextKey + 1, now)
            keysUsed == IF r.ok THEN Len(list) ELSE r.attempted - 1
        IN  /\ nextKey + keysUsed <= MaxKeyPairs
            /\ nextKey' = nextKey + keysUsed
            /\ issuanceCall' =
                   [called |-> TRUE, entry |-> "batch", method |-> "", action |-> "",
                    authorization |-> FALSE, issuerPrivateKey |-> Some(sk),
                    diplomaData |-> Absent, diplomaDataList |-> Some(list),
                    ok |-> r.ok, status |-> 0, error |-> r.error,
                    credentials |-> r.credentials, attempted |-> r.attempted,
                    errors |-> <<>>]
    /\ UNCHANGED <<issuerKeys, now, issueCall, held, proofCall, verifyCall, sha256Tail,
                   pureCall, exchange, ui, wallet, verdicts>>

\* the handler of the issuance endpoint on one request
IssuanceEndpoint ==
    /\ ~issuanceCall.called
    /\ \E call \in IssuanceCalls :
        LET r == issuerHandler(call.method, call.authorization, call.issuerPrivateKey,
                               call.body, nextKey + 1, now)
        IN  /\ nextKey + r.keysUsed <= MaxKeyPairs
            /\ nextKey' = nextKey + r.keysUsed
            /\ issuanceCall' =
                   [called |-> TRUE, entry |-> "endpoint", method |-> call.method,
                    action |-> call.body.action, authorization |-> call.authorization,
                    issuerPrivateKey |-> call.issuerPrivateKey,
                    diplomaData |-> call.body.diplomaData,
                    diplomaDataList |-> call.body.diplomaDataList,
                    ok |-> (r.status = 200 /\ r.success), status |-> r.status,
                    error |-> r.error, credentials |-> r.credentials,
                    attempted |-> r.attempted, errors |-> r.errors]
    /\ UNCHANGED <<issuerKeys, now, issueCall, held, proofCall, verifyCall, sha256Tail,
                   pureCall, exchange, ui, wallet, verdicts>>

\* the handler of api/verify.ts on one request; a run follows one request to
\* one of the two endpoints
VerificationRequest ==
    /\ exchange.endpoint = "none"
    /\ \E call \in VerificationRequests :
        LET reads == call.body # Absent /\ readsDigest(call.method, call.body[1], call.env)
        IN  \E lastDigit \in (IF reads THEN HexDigits ELSE {0}) :
                LET r == verifyExchange(call.method, call.body, call.env, lastDigit, now)
                IN  /\ exchange' =
                           [endpoint |-> "verify", method |-> call.method,
                            authorization |-> FALSE, issuerPrivateKey |-> Absent,
                            body |-> call.body, env |-> call.env, headers |-> r.headers,
                            sent |-> r.sent, core |-> r.core]
                    /\ sha256Tail' =
                           IF reads
                           THEN {[data |-> combinedHashInput(call.body[1]),
                                  digit |-> lastDigit]}
                           ELSE sha256Tail
    /\ UNCHANGED <<nextKey, issuerKeys, now, issueCall, held, proofCall, verifyCall,
                   issuanceCall, pureCall, ui, wallet, verdicts>>

\* the handler of the issuance endpoint on one request
IssuanceRequest ==
    /\ exchange.endpoint = "none"
    /\ \E call \in IssuanceRequests :
        LET r == issuerExchange(call.method, call.authorization, call.issuerPrivateKey,
                                call.body, nextKey + 1, now)
        IN  /\ nextKey + r.keysUsed <= MaxKeyPairs
            /\ nextKey' = nextKey + r.keysUsed
            /\ exchange' =
                   [endpoint |-> "issue", method |-> call.method,
                    authorization |-> call.authorization,
                    issuerPrivateKey |-> call.issuerPrivateKey, body |-> call.body,
                    env |-> Absent, headers |-> r.headers, sent |-> r.sent,
                    core |-> r.core]
    /\ UNCHANGED <<issuerKeys, now, issueCall, held, proofCall, verifyCall, sha256Tail,
                   issuanceCall, pureCall, ui, wallet, verdicts>>

\* the same function was asked about the same request under the same trust policy
SameInputs(a, b) == a.entry = b.entry /\ a.request = b.request /\ a.env = b.env

\* the verifications of a run once v has been made
Recorded(v) ==
    IF ~verdicts.first.called
    THEN [first |-> v, last |-> NoVerdict, between |-> FALSE]
    ELSE [first |-> verdicts.first, last |-> v,
          between |-> verdicts.between \/ ~SameInputs(v, verdicts.first)]

\* proofService.verifyProof on a request, at any time and after any other
\* verifications
RetryService ==
    /\ \E request \in RetryRequests :
        LET r == verifyProof(request, now)
        IN  verdicts' = Recorded([called |-> TRUE, entry |-> "service", request |-> request,
                                  env |-> Absent, at |-> now, isValid |-> r.isValid,
                                  message |-> r.message])
    /\ UNCHANGED <<coreVars, exchange, ui, wallet>>

\* the handler of api/verify.ts on a POST request, at any time and after any
\* other verifications; the digest of a text read before ends as it did then
RetryEndpoint ==
    /\ \E request \in RetryRequests, env \in TrustedIssuersSettings(SignedSample.issuerPublicKey) :
        LET reads == readsDigest("POST", request, env)
            data == combinedHashInput(request)
            known == {e \in sha256Tail : e.data = data}
        IN  \E lastDigit \in (IF ~reads THEN {0}
                              ELSE IF known # {} THEN {e.digit : e \in known}
                              ELSE SampledTails) :
                LET r == handler("POST", request, env, lastDigit, now)
                IN  /\ verdicts' = Recorded([called |-> TRUE, entry |-> "endpoint",
                                             request |-> request, env |-> env, at |-> now,
                                             isValid |-> r.isValid, message |-> r.message])
                    /\ sha256Tail' = IF reads
                                     THEN sha256Tail \cup {[data |-> data, digit |-> lastDigit]}
                                     ELSE sha256Tail
    /\ UNCHANGED <<nextKey, issuerKeys, now, issueCall, held, proofCall, verifyCall,
                   issuanceCall, pureCall, exchange, ui, wallet>>

\* App.handleCredentialUpload, called by CredentialUploader with a validated
\* credential: ProofGenerator is rendered without a key, so its state outlives
\* the change of its credential prop
HandleCredentialUpload ==
    /\ \E uploadedCredential \in UiCredentials :
        ui' = [ui EXCEPT !.credential = Some(uploadedCredential), !.appStatus = "idle"]
    /\ UNCHANGED <<coreVars, exchange, wallet, verdicts>>

\* ProofGenerator.handleGenerateProof up to its await: the button is enabled
\* unless a proof is being generated or the form is incomplete
HandleGenerateProof ==
    /\ ui.credential # Absent
    /\ ui.proofStatus # "generating"
    /\ \E privateInputs \in UiPrivateInputs :
        ui' = [ui EXCEPT !.proofStatus = "generating", !.appStatus = "generating",
                         !.proofResponse = Absent, !.proofOf = Absent,
                         !.verificationResult = Absent,
                         !.inFlight = Some([credential |-> ui.credential[1],
                                            privateInputs |-> privateInputs])]
    /\ UNCHANGED <<coreVars, exchange, wallet, verdicts>>

\* what handleGenerateProof does when generateProof has settled with r
proofSettled(r) ==
    IF r.ok
    THEN [ui EXCEPT !.proofResponse = Some(r.response),
                    !.proofOf = Some(ui.inFlight[1].credential),
                    !.proofStatus = "success", !.appStatus = "success",
                    !.inFlight = Absent]
    ELSE [ui EXCEPT !.proofStatus = "error", !.appStatus = "error", !.inFlight = Absent]

\* the generateProof call in flight settles, after its delay
GenerateProofSettles ==
    /\ ui.inFlight # Absent
    /\ ui' = proofSettled(generateProof(ui.inFlight[1], now))
    /\ UNCHANGED <<coreVars, exchange, wallet, verdicts>>

\* ProofGenerator.handleVerifyProof: the button is shown with a proof generated
\* with success; the request is the stored proof with the issuer key of the
\* credential prop
HandleVerifyProof ==
    /\ ui.credential # Absent
    /\ ui.proofStatus = "success"
    /\ ui.proofResponse # Absent
    /\ ui' = [ui EXCEPT
                 !.submitted = Some(ProofRequest(ui.proofResponse[1],
                                                 ui.credential[1].issuerPublicKey)),
                 !.verificationResult =
                     Some(verifyProof(ProofRequest(ui.proofResponse[1],
                                                   ui.credential[1].issuerPublicKey),
                                      now).isValid)]
    /\ UNCHANGED <<coreVars, exchange, wallet, verdicts>>

\* aleoService.connect() is called
Connect ==
    /\ wallet.calls < MaxCalls
    /\ wallet' = connectCalled(wallet)
    /\ UNCHANGED <<coreVars, exchange, ui, verdicts>>

\* the timer of a MockWallet.connect fires, or the provider rejects
ProviderConnectSettles ==
    /\ wallet.timers > 0
    /\ wallet.microtasks = <<>>
    /\ \E rejects \in BOOLEAN : wallet' = providerConnectSettles(wallet, rejects)
    /\ UNCHANGED <<coreVars, exchange, ui, verdicts>>

\* aleoService.disconnect() is called
Disconnect ==
    /\ wallet.calls < MaxCalls
    /\ wallet' = disconnectCalled(wallet)
    /\ UNCHANGED <<coreVars, exchange, ui, verdicts>>

\* aleoService.restoreConnection() is called
RestoreConnection ==
    /\ wallet.calls < MaxCalls
    /\ wallet' = restoreCalled(wallet)
    /\ UNCHANGED <<coreVars, exchange, ui, verdicts>>

\* the first microtask runs: a call goes on after its await, to its end
Microtask ==
    /\ wallet.microtasks # <<>>
    /\ wallet' = afterAwait([wallet EXCEPT !.microtasks = Tail(wallet.microtasks)],
                            Head(wallet.microtasks))
    /\ UNCHANGED <<coreVars, exchange, ui, verdicts>>

\* issuance and proof generation
Next ==
    \/ Tick
    \/ GenerateIssuerKeys
    \/ Issue(IssueDiplomas)
    \/ HandleGenerateCredential
    \/ ImportCredential
    \/ UploadCredential
    \/ GenerateProof(Altered)

Spec == Init /\ [][Next]_vars

\* verification of the proofs made from the data a credential was issued for
NextVerify ==
    \/ GenerateIssuerKeys
    \/ Issue(VerifyDiplomas)
    \/ HandleGenerateCredential
    \/ GenerateProof(AsIssued)
    \/ VerifyService
    \/ VerifyEndpoint

SpecVerify == Init /\ [][NextVerify]_vars

\* issuance by the issuing functions and by the issuance endpoint
NextIssue ==
    \/ GenerateIssuerKeys
    \/ Issue(IssuanceDiplomas)
    \/ BatchIssue
    \/ IssuanceEndpoint

SpecIssue == Init /\ [][NextIssue]_vars

\* verifications repeated as time passes
NextRetry ==
    \/ Tick
    \/ RetryService
    \/ RetryEndpoint

SpecRetry == Init /\ [][NextRetry]_vars

\* the holder at the page: uploads, Generate Proof and Verify clicks
NextUi ==
    \/ Tick
    \/ HandleCredentialUpload
    \/ HandleGenerateProof
    \/ GenerateProofSettles
    \/ HandleVerifyProof

SpecUi == Init /\ [][NextUi]_vars

\* the wallet service under calls made at any time
NextWallet ==
    \/ Connect
    \/ ProviderConnectSettles
    \/ Disconnect
    \/ RestoreConnection
    \/ Microtask

SpecWallet == Init /\ [][NextWallet]_vars

\* the two transport handlers
NextTransport ==
    \/ Tick
    \/ VerificationRequest
    \/ IssuanceRequest

SpecTransport == Init /\ [][NextTransport]_vars

\* a run of a function that reads no state starts with the arguments of the call
InitPure ==
    /\ nextKey = 0
    /\ issuerKeys = {}
    /\ now = 0
    /\ issueCall = NoIssueCall
    /\ held = NoHeld
    /\ proofCall = NoProofCall
    /\ verifyCall = NoVerifyCall
    /\ sha256Tail = {}
    /\ issuanceCall = NoIssuanceCall
    /\ \/ pureCall \in VerifyInputs
       \/ pureCall \in ImportInputs
       \/ pureCall \in RoundTripInputs
       \/ pureCall \in FieldsInputs
       \/ pureCall \in MerkleInputs
       \/ pureCall \in CommitmentInputs
       \/ pureCall \in OrderInputs
    /\ exchange = NoExchange
    /\ ui = NoUi
    /\ wallet = NoWallet
    /\ verdicts = NoVerdicts

\* verifyCredential(value, issuerPublicKey)
VerifyCredentialCall ==
    /\ pureCall.op = "verifyCredential" /\ ~pureCall.done
    /\ pureCall' = [pureCall EXCEPT
                       !.done = TRUE,
                       !.result = verifyCredentialValue(pureCall.value,
                                                        pureCall.issuerPublicKey)]
    /\ UNCHANGED <<nextKey, issuerKeys, now, issueCall, held, proofCall, verifyCall,
                   sha256Tail, issuanceCall, exchange, ui, wallet, verdicts>>

\* importCredential(fileContent)
ImportCredentialCall ==
    /\ pureCall.op = "importCredential" /\ ~pureCall.done
    /\ pureCall' = [pureCall EXCEPT
                       !.done = TRUE,
                       !.result = importCredential(pureCall.fileContent, ImportObjects)]
    /\ UNCHANGED <<nextKey, issuerKeys, now, issueCall, held, proofCall, verifyCall,
                   sha256Tail, issuanceCall, exchange, ui, wallet, verdicts>>

\* what handleFileSelect does with the text of a file, validated the outcome of
\* validateCredential on the parsed object
fileSelected(parsed, validated) ==
    IF ~parsed.ok THEN [NoImport EXCEPT !.error = "SyntaxError"]
    ELSE IF validated # "" THEN [NoImport EXCEPT !.error = validated]
    ELSE [ok |-> TRUE, error |-> "", credential |-> parsed.value]

\* CredentialUploader.handleFileSelect on the text of a file
HandleFileSelectCall ==
    /\ pureCall.op = "handleFileSelect" /\ ~pureCall.done
    /\ pureCall' = [pureCall EXCEPT
                       !.done = TRUE,
                       !.result =
                           fileSelected(
                               JsonParse(pureCall.fileContent, ImportObjects),
                               validateCredential(
                                   JsonParse(pureCall.fileContent, ImportObjects).value))]
    /\ UNCHANGED <<nextKey, issuerKeys, now, issueCall, held, proofCall, verifyCall,
                   sha256Tail, issuanceCall, exchange, ui, wallet, verdicts>>

\* importCredential(exportCredential(credential))
ExportImportCall ==
    /\ pureCall.op = "exportCredential" /\ ~pureCall.done
    /\ pureCall' = [pureCall EXCEPT
                       !.done = TRUE,
                       !.result = importCredential(exportCredential(pureCall.credential),
                                                   RoundTripObjects)]
    /\ UNCHANGED <<nextKey, issuerKeys, now, issueCall, held, proofCall, verifyCall,
                   sha256Tail, issuanceCall, exchange, ui, wallet, verdicts>>

\* hashMultipleFields(fields)
HashMultipleFieldsCall ==
    /\ pureCall.op = "hashMultipleFields" /\ ~pureCall.done
    /\ pureCall' = [pureCall EXCEPT
                       !.done = TRUE, !.result = hashMultipleFields(pureCall.fields)]
    /\ UNCHANGED <<nextKey, issuerKeys, now, issueCall, held, proofCall, verifyCall,
                   sha256Tail, issuanceCall, exchange, ui, wallet, verdicts>>

\* createMerkleRoot(hashes)
CreateMerkleRootCall ==
    /\ pureCall.op = "createMerkleRoot" /\ ~pureCall.done
    /\ pureCall' = [pureCall EXCEPT
                       !.done = TRUE, !.result = createMerkleRoot(pureCall.hashes)]
    /\ UNCHANGED <<nextKey, issuerKeys, now, issueCall, held, proofCall, verifyCall,
                   sha256Tail, issuanceCall, exchange, ui, wallet, verdicts>>

\* issueCredential(d, sk), then generateProof on its credential with d as the
\* private inputs: the hashedData the one stores, the hashedInputs the other
\* builds, and whether generateProof found the two to differ
RecomputeCommitmentsCall ==
    /\ pureCall.op = "commitments" /\ ~pureCall.done
    /\ pureCall' = [pureCall EXCEPT
                       !.done = TRUE,
                       !.stored = issuerHashedData(pureCall.diplomaData),
                       !.recomputed = proofHashedInputs(pureCall.diplomaData),
                       !.again = proofHashedInputs(pureCall.diplomaData),
                       !.mismatch =
                           ~verifyHashedData(proofHashedInputs(pureCall.diplomaData),
                                             issuerHashedData(pureCall.diplomaData))]
    /\ UNCHANGED <<nextKey, issuerKeys, now, issueCall, held, proofCall, verifyCall,
                   sha256Tail, issuanceCall, exchange, ui, wallet, verdicts>>

\* verifyZKProof(request), and what it answers when the digest ends otherwise
VerifyZKProofCall ==
    /\ pureCall.op = "verifyZKProof" /\ ~pureCall.done
    /\ pureCall' = [pureCall EXCEPT
                       !.done = TRUE,
                       !.result = verifyZKProof(pureCall.request, pureCall.env,
                                                pureCall.lastDigit),
                       !.flipped =
                           verifyZKProof(pureCall.request, pureCall.env,
                                         CHOOSE d \in SampledTails : d # pureCall.lastDigit)]
    /\ UNCHANGED <<nextKey, issuerKeys, now, issueCall, held, proofCall, verifyCall,
                   sha256Tail, issuanceCall, exchange, ui, wallet, verdicts>>

\* the functions that read no state, each on the arguments the run starts with
NextPure ==
    \/ VerifyCredentialCall
    \/ ImportCredentialCall
    \/ HandleFileSelectCall
    \/ ExportImportCall
    \/ HashMultipleFieldsCall
    \/ CreateMerkleRootCall
    \/ RecomputeCommitmentsCall
    \/ VerifyZKProofCall

SpecPure == InitPure /\ [][NextPure]_vars

(***************************************************************************)
(* Properties of issuance and proof generation: behaviours of Spec.        *)
(***************************************************************************)
\* the holder still has the credential exactly as issueCredential returned it
HoldsIssued == held.origin = "issued"

\* C1: generateProof on an issued credential, with private inputs that differ
\* from the issued diploma data in some field, fails with the input-mismatch
\* error and returns no proof.
AlteredInputsRejected ==
    (proofCall.called /\ HoldsIssued /\ proofCall.privateInputs # held.diplomaData)
        => (~proofCall.ok /\ proofCall.error = MismatchError
            /\ proofCall.response = NoProofResponse)

\* C2: the credential issueCredential returns for a well-formed private key
\* passes verifyCredential against its own recorded issuerPublicKey.
IssuedCredentialVerifies ==
    (issueCall.called /\ issueCall.ok)
        => verifyCredential(issueCall.credential, issueCall.credential.issuerPublicKey)

\* C3: the issuerPublicKey issueCredential records is the public key of the
\* pair whose private key it was given to sign with.
RecordsSuppliedPublicKey ==
    (issueCall.called /\ issueCall.ok)
        => \E id \in 1..MaxKeyPairs :
            /\ generateKeyPair(id).privateKey = issueCall.issuerPrivateKey
            /\ generateKeyPair(id).publicKey = issueCall.credential.issuerPublicKey

\* the outcome of generateProof on the held credential at the clock of the last
\* call, had the holder typed q
ProofFor(q) ==
    generateProof([credential |-> held.credential, privateInputs |-> q], proofCall.clock)

\* C4: the proof carries no private data: for the held credential (issued,
\* sample or loaded from a file) and the clock of the call, every private input
\* that generateProof accepts yields the same proof, public inputs and
\* verification key as the call returned.
ProofCarriesNoPrivateData ==
    (proofCall.called /\ proofCall.ok)
        => \A q \in PrivateInputs :
            ProofFor(q).ok => ProofFor(q).response = proofCall.response

\* a proof was returned although other private inputs pass against the same
\* credential, which was loaded from a file
TwoInputsPassOnLoaded ==
    /\ proofCall.called /\ proofCall.ok
    /\ held.origin = "loaded"
    /\ \E q \in Alterations(proofCall.privateInputs) :
        q # proofCall.privateInputs /\ ProofFor(q).ok

\* C5: generateProof returns no proof for a credential whose signature does not
\* verify against its hashedData and its issuerPublicKey.
UnverifiedCredentialRejected ==
    (proofCall.called
     /\ ~verifyCredential(held.credential, held.credential.issuerPublicKey))
        => ~proofCall.ok

\* C9: generateProof on an issued credential with the very diploma data it was
\* issued for returns a proof.
IdenticalInputsAccepted ==
    (proofCall.called /\ HoldsIssued /\ proofCall.privateInputs = held.diplomaData)
        => proofCall.ok

\* C10: generateProof gets past the commitment comparison only if the gpa is
\* absent on both sides, or present on both sides with the stored gpaHash the
\* hash of the typed gpa.
GpaPresenceCompared ==
    (proofCall.called /\ proofCall.error # MismatchError)
        => LET gpa == proofCall.privateInputs.gpa
               gpaHash == held.credential.hashedData.gpaHash
           IN  \/ gpa = Absent /\ gpaHash = Absent
               \/ /\ gpa # Absent
                  /\ gpaHash # Absent
                  /\ gpaHash[1] = hashData(GpaToString(gpa[1]))

\* C11: the publicInputs of every proof generateProof returns are the three
\* texts issuerPublicKey of the credential, timestamp of the credential in
\* decimal, and 'degree_verified', in that order, whatever the private inputs
\* and the time of the call.
PublicInputsFromCredential ==
    (proofCall.called /\ proofCall.ok)
        => proofCall.response.publicInputs
               = <<held.credential.issuerPublicKey,
                   TimestampToString(held.credential.timestamp),
                   VerifiedTag>>

\* a proof was returned after the clock had moved on from the timestamp of the
\* credential, for private inputs other than the issued data
ProofMadeLaterFromOtherInputs ==
    /\ proofCall.called /\ proofCall.ok
    /\ proofCall.clock # held.credential.timestamp
    /\ proofCall.privateInputs # held.diplomaData

(***************************************************************************)
(* Properties of issuance: behaviours of SpecIssue.                        *)
(***************************************************************************)
\* C12: issuing for diploma data with an empty required field, or with a gpa
\* outside [0, 4], fails and returns no credential, whether issueCredential is
\* called directly or through the issue-credential action of the endpoint.
InvalidInputRejected ==
    /\ (/\ issueCall.called
        /\ \/ lacksRequiredField(issueCall.diplomaData)
           \/ /\ issueCall.diplomaData.gpa # Absent
              /\ issueCall.diplomaData.gpa[1] \notin 0..400)
        => (~issueCall.ok /\ issueCall.credential = NoCredential)
    /\ (/\ issuanceCall.called
        /\ issuanceCall.entry = "endpoint"
        /\ issuanceCall.method = "POST"
        /\ issuanceCall.authorization
        /\ TruthyString(issuanceCall.issuerPrivateKey)
        /\ issuanceCall.action = "issue-credential"
        /\ issuanceCall.diplomaData # Absent
        /\ \/ lacksRequiredField(issuanceCall.diplomaData[1])
           \/ /\ issuanceCall.diplomaData[1].gpa # Absent
              /\ issuanceCall.diplomaData[1].gpa[1] \notin 0..400)
        => (~issuanceCall.ok /\ issuanceCall.credentials = <<>>)

\* C13: a batch is all-or-nothing: when issueCredential fails for an entry of the
\* list, the call fails, returns no credential, and has called issueCredential
\* for no entry after the first one it fails for; this for batchIssueCredentials
\* and for the batch-issue action of the endpoint on a list it has validated.
BatchAllOrNothing ==
    (/\ issuanceCall.called
     /\ issuanceCall.diplomaDataList # Absent
     /\ \/ issuanceCall.entry = "batch"
        \/ /\ issuanceCall.entry = "endpoint"
           /\ issuanceCall.method = "POST"
           /\ issuanceCall.authorization
           /\ TruthyString(issuanceCall.issuerPrivateKey)
           /\ issuanceCall.action = "batch-issue"
           /\ issuanceCall.diplomaDataList[1] # <<>>
           /\ badEntries(issuanceCall.diplomaDataList[1]) = {})
        => LET list == issuanceCall.diplomaDataList[1]
               failing ==
                   {i \in 1..Len(list) :
                       ~issueEntry(list[i], issuanceCall.issuerPrivateKey[1], 1, 0).ok}
           IN  failing # {}
                   => /\ ~issuanceCall.ok
                      /\ issuanceCall.credentials = <<>>
                      /\ \A i \in failing : issuanceCall.attempted <= i

IsDigest(s) == Len(s) = 1 /\ s[1].k = "sha256" /\ StrLen(s) = Sha256HexLen

\* C22: a credential issueCredential returns has its four required hashes, a
\* signature, an issuer public key and a timestamp; when signData fails, as it
\* does on a private key that is no PKCS#8 key, issueCredential throws and
\* returns no credential
NoPartialCredential ==
    issueCall.called
        => /\ issueCall.ok <=> IsPkcs8(issueCall.issuerPrivateKey)
           /\ issueCall.ok
                => /\ IsDigest(issueCall.credential.hashedData.degreeHash)
                   /\ IsDigest(issueCall.credential.hashedData.schoolHash)
                   /\ IsDigest(issueCall.credential.hashedData.dateHash)
                   /\ IsDigest(issueCall.credential.hashedData.studentIdHash)
                   /\ StrLen(issueCall.credential.signature) = SignatureHexLen
                   /\ IsSpki(issueCall.credential.issuerPublicKey)
                   /\ issueCall.credential.timestamp \in 0..MaxTick
                   /\ held.credential = issueCall.credential
           /\ ~issueCall.ok
                => /\ issueCall.error = "Failed to issue credential"
                   /\ issueCall.credential = NoCredential
                   /\ held = NoHeld

\* issueCredential was called with a private key that is no PKCS#8 key
SigningFailed ==
    /\ issueCall.called
    /\ issueCall.issuerPrivateKey \in MalformedKeys
    /\ ~issueCall.ok

(***************************************************************************)
(* Properties of the functions that read no state: behaviours of SpecPure. *)
(***************************************************************************)
\* a text holds a character that is no hex digit
NotHex(s) ==
    \E i \in 1..Len(s) :
        \/ s[i].k = "c" /\ HexValue(s[i].v) < 0
        \/ s[i].k = "respelt" /\ \E j \in 1..Len(s[i].v.text) : HexValue(s[i].v.text[j]) < 0

\* C15: verifyCredential returns false for a null credential, for one without
\* hashedData, for an empty signature or public key, and for a signature or
\* public key that is not hexadecimal text.
MalformedCredentialRejected ==
    (/\ pureCall.op = "verifyCredential"
     /\ pureCall.done
     /\ \/ pureCall.value = Absent
        \/ pureCall.value[1].hashedData = Absent
        \/ pureCall.value[1].signature = <<>>
        \/ pureCall.issuerPublicKey = <<>>
        \/ NotHex(pureCall.value[1].signature)
        \/ NotHex(pureCall.issuerPublicKey))
        => ~pureCall.result

\* C16: when one character of the signature of a credential that verifies is
\* replaced by a different hex digit, of either case, verifyCredential returns
\* false.
TamperedSignatureRejected ==
    (/\ pureCall.op = "verifyCredential"
     /\ pureCall.done
     /\ pureCall.value # Absent
     /\ pureCall.value[1].hashedData # Absent
     /\ Len(pureCall.value[1].signature) = 1
     /\ pureCall.value[1].signature[1].k = "respelt"
     /\ ~NotHex(pureCall.value[1].signature)
     /\ verifyCredentialValue(
            Some([pureCall.value[1] EXCEPT !.signature = <<pureCall.value[1].signature[1].v.of>>]),
            pureCall.issuerPublicKey))
        => ~pureCall.result

\* C17: a file is accepted, by importCredential or by the uploader, only if the
\* object parsed from it has hashedData, signature, issuerPublicKey and
\* timestamp, and its hashedData has degreeHash, schoolHash, dateHash and
\* studentIdHash; a file that is not accepted yields an error.
ImportChecksAllFields ==
    (pureCall.op \in {"importCredential", "handleFileSelect"} /\ pureCall.done)
        => IF pureCall.result.ok
           THEN /\ pureCall.result.credential.hashedData # Absent
                /\ pureCall.result.credential.signature # Absent
                /\ pureCall.result.credential.issuerPublicKey # Absent
                /\ pureCall.result.credential.timestamp # Absent
                /\ pureCall.result.credential.hashedData[1].degreeHash # Absent
                /\ pureCall.result.credential.hashedData[1].schoolHash # Absent
                /\ pureCall.result.credential.hashedData[1].dateHash # Absent
                /\ pureCall.result.credential.hashedData[1].studentIdHash # Absent
           ELSE pureCall.result.error # ""

\* C18: importCredential accepts the text exportCredential writes for a valid
\* credential, with or without gpaHash, and returns an object with every field
\* of that credential, each equal to the credential's.
ExportImportRoundTrip ==
    (pureCall.op = "exportCredential" /\ pureCall.done)
        => /\ pureCall.result.ok
           /\ pureCall.result.credential = ParsedOf(pureCall.credential)
           /\ TypedOf(pureCall.result.credential) = pureCall.credential

\* a credential without gpaHash has been exported and imported
RoundTripWithoutGpa ==
    /\ pureCall.op = "exportCredential" /\ pureCall.done
    /\ pureCall.credential.hashedData.gpaHash = Absent
    /\ pureCall.result.ok

\* C19: no list of fields other than the one hashMultipleFields was called on
\* has the same digest, that is the same joined text.
FieldsJoinedUnambiguously ==
    (pureCall.op = "hashMultipleFields" /\ pureCall.done)
        => \A other \in FieldLists :
            other # pureCall.fields => hashMultipleFields(other) # pureCall.result

\* the digest left when a list of digests is replaced again and again by the
\* hashes of its consecutive pairs, its last element first written twice when the
\* list has an odd number of elements above one
RECURSIVE PairwiseFold(_)
PairwiseFold(level) ==
    IF Len(level) = 1 THEN level[1]
    ELSE LET padded == IF Len(level) % 2 = 1 THEN Append(level, level[Len(level)])
                       ELSE level
         IN  PairwiseFold([i \in 1..(Len(padded) \div 2) |->
                              hashData(padded[2 * i - 1] \o padded[2 * i])])

\* C20: createMerkleRoot on a non-empty list of digests returns the digest of the
\* pairwise fold of the list, and the element itself for a list of one.
MerkleRootFoldsPairs ==
    (pureCall.op = "createMerkleRoot" /\ pureCall.done /\ pureCall.hashes # <<>>)
        => /\ ~pureCall.result.throws
           /\ pureCall.result.root = PairwiseFold(pureCall.hashes)
           /\ Len(pureCall.hashes) = 1 => pureCall.result.root = pureCall.hashes[1]

\* a root was returned for a list of three digests, whose last one has no partner
OddLevelFolded ==
    /\ pureCall.op = "createMerkleRoot" /\ pureCall.done
    /\ Len(pureCall.hashes) = 3
    /\ ~pureCall.result.throws

\* C21: the commitments generateProof recomputes from diploma data are, field by
\* field and in the presence of a gpa commitment, those issueCredential stores
\* for the same data, and recomputing them gives them again
CommitmentsRecomputedAsIssued ==
    (pureCall.op = "commitments" /\ pureCall.done)
        => /\ pureCall.recomputed.degreeHash = pureCall.stored.degreeHash
           /\ pureCall.recomputed.schoolHash = pureCall.stored.schoolHash
           /\ pureCall.recomputed.dateHash = pureCall.stored.dateHash
           /\ pureCall.recomputed.studentIdHash = pureCall.stored.studentIdHash
           /\ pureCall.recomputed.gpaHash = pureCall.stored.gpaHash
           /\ pureCall.again = pureCall.recomputed
           /\ ~pureCall.mismatch

\* the commitments were computed for diploma data whose gpa is 0
GpaZeroRecomputed ==
    /\ pureCall.op = "commitments" /\ pureCall.done
    /\ pureCall.diplomaData.gpa = Some(0)
    /\ pureCall.stored.degreeHash = hashData(pureCall.diplomaData.degree)

\* the checks of verifyZKProof the request of the call passes
PassesStructural == validateProofStructure(pureCall.request)
PassesTrust == validateIssuerKey(pureCall.request.issuerPublicKey, pureCall.env)
PassesPublicInputs == validatePublicInputs(pureCall.request.publicInputs)

\* C26: verifyZKProof reports the first check that fails, in the order
\* structural, trust, public inputs, cryptographic: a malformed proof from an
\* untrusted issuer is rejected as malformed, a well-formed one from an untrusted
\* issuer with invalid public inputs as untrusted, and the digit the
\* cryptographic check reads changes nothing for a request that fails an
\* earlier check
FirstFailureReported ==
    (pureCall.op = "verifyZKProof" /\ pureCall.done)
        => /\ ~PassesStructural => pureCall.result.message = InvalidStructure
           /\ (PassesStructural /\ ~PassesTrust)
                => pureCall.result.message = UntrustedIssuer
           /\ (PassesStructural /\ PassesTrust /\ ~PassesPublicInputs)
                => pureCall.result.message = InvalidPublicInputs
           /\ (PassesStructural /\ PassesTrust /\ PassesPublicInputs)
                => pureCall.result.message \in {CryptoFailed, EndpointVerified}
           /\ ~(PassesStructural /\ PassesTrust /\ PassesPublicInputs)
                => /\ ~pureCall.result.isValid
                   /\ pureCall.flipped = pureCall.result
           /\ pureCall.result.isValid <=> pureCall.result.message = EndpointVerified

\* verifyZKProof was given a malformed proof from an untrusted issuer, with a
\* digest the cryptographic check would accept
MalformedAndUntrusted ==
    /\ pureCall.op = "verifyZKProof" /\ pureCall.done
    /\ ~PassesStructural
    /\ ~PassesTrust
    /\ pureCall.lastDigit \in AcceptedDigits

(***************************************************************************)
(* Properties of verification: behaviours of SpecVerify.                   *)
(***************************************************************************)
\* the list of issuer keys a TRUSTED_ISSUERS value configures
AllowList(env) == IF env = Absent THEN <<>> ELSE SplitComma(env[1])

InAllowList(key, env) == \E i \in 1..Len(AllowList(env)) : AllowList(env)[i] = key

\* the digest of the request was read and ends in an accepted digit
DigestAccepted(request) ==
    \E e \in sha256Tail :
        e.data = combinedHashInput(request) /\ e.digit \in AcceptedDigits

\* C6: a verifier, the service verifyProof or the endpoint, answers isValid only
\* if the request has the expected format, its issuer key satisfies the trust
\* policy, its public inputs are a non-empty list of non-empty strings, and the
\* cryptographic check has accepted it.
ValidOnlyAfterAllChecks ==
    (verifyCall.called /\ verifyCall.isValid)
        => /\ validateProofStructure(verifyCall.request)
           /\ validateIssuerKey(verifyCall.request.issuerPublicKey, verifyCall.env)
           /\ validatePublicInputs(verifyCall.request.publicInputs)
           /\ DigestAccepted(verifyCall.request)

\* the trust policies a call is answered under: the endpoint reads its own
\* TRUSTED_ISSUERS, the service may run wherever one is configured
PoliciesOf(call) ==
    IF call.entry = "endpoint" THEN {call.env} ELSE TrustedIssuersSettings(RecordedKey)

\* the messages that tell the caller the issuer was not accepted
IssuerMessages == {UntrustedIssuer, ServiceRejected}

\* C7: under a configured allow-list a request whose issuer key is not on the
\* list is answered isValid = false with a message that names the issuer, and
\* an accepted request has its issuer key on the list, or of valid format when
\* no list is configured.
UntrustedIssuerRejected ==
    (/\ verifyCall.called
     /\ verifyCall.entry = "endpoint" => (verifyCall.status = 200 /\ verifyCall.json))
        => \A env \in PoliciesOf(verifyCall) :
            LET key == verifyCall.request.issuerPublicKey
            IN  /\ (env # Absent /\ ~InAllowList(key, env)
                      /\ validateProofStructure(verifyCall.request))
                    => (~verifyCall.isValid /\ verifyCall.message \in IssuerMessages)
                /\ verifyCall.isValid
                    => IF env # Absent THEN InAllowList(key, env)
                       ELSE StrLen(key) >= MinIssuerKeyLen

\* C8: the endpoint, with no allow-list configured, accepts the request made of
\* the proof for the issued data, its own public inputs and verification key,
\* and the public key of the pair the issuer signed with.
GenuineProofAccepted ==
    (/\ verifyCall.called
     /\ verifyCall.entry = "endpoint"
     /\ verifyCall.method = "POST"
     /\ verifyCall.env = Absent
     /\ verifyCall.request = ProofRequest(proofCall.response, SuppliedKey))
        => verifyCall.isValid

(***************************************************************************)
(* Properties of the transport handlers: behaviours of SpecTransport.      *)
(***************************************************************************)
\* a handler ran on a request
Handled == exchange.endpoint # "none"

\* every response was sent after the three cross-origin headers were set
CorsOnEveryResponse == Handled => CorsHeaders \subseteq exchange.headers

\* C23, as stated: both handlers reject every request whose method is not POST,
\* calling no core operation, and set the cross-origin headers on every response
NonPostRejected ==
    /\ CorsOnEveryResponse
    /\ (Handled /\ exchange.method # "POST")
            => /\ exchange.core = <<>>
               /\ Len(exchange.sent) = 1
               /\ exchange.sent[1].status >= 400

\* C23, amended: for a request whose method is not POST both handlers call no
\* core operation; they answer OPTIONS, the cross-origin preflight, with 200 and
\* no body, and every other such method with 405 "Method not allowed"; they set
\* the cross-origin headers on every response
NonPostNotProcessed ==
    /\ CorsOnEveryResponse
    /\ (Handled /\ exchange.method # "POST")
            => /\ exchange.core = <<>>
               /\ Len(exchange.sent) = 1
               /\ IF exchange.method = "OPTIONS"
                  THEN exchange.sent[1].status = 200 /\ ~exchange.sent[1].json
                  ELSE /\ exchange.sent[1].status = 405
                       /\ exchange.sent[1].json
                       /\ exchange.sent[1].error = MethodNotAllowed

\* the verification endpoint answered a DELETE request that had a well-formed body
DeleteAnswered ==
    /\ exchange.endpoint = "verify"
    /\ exchange.method = "DELETE"
    /\ exchange.body # Absent
    /\ exchange.sent # <<>>

\* the request lacks the Authorization header, or no issuer private key is set
NotAuthorized == ~authorized(exchange.authorization, exchange.issuerPrivateKey)

\* C25, as stated: the issuance endpoint calls no core operation and answers 401
\* whenever the request lacks the Authorization header or no issuer private key
\* is configured
UnauthorizedAnswered401 ==
    (exchange.endpoint = "issue" /\ NotAuthorized)
        => /\ exchange.core = <<>>
           /\ Len(exchange.sent) = 1
           /\ exchange.sent[1].status = 401

\* C25, amended: the issuance endpoint calls no core operation for a request that
\* lacks the Authorization header or finds no issuer private key configured; it
\* answers such a POST request with 401 whatever its body, a missing one
\* included, and such a request of another method as it answers every request of
\* that method, with 200 for OPTIONS and with 405 otherwise
UnauthorizedNotServed ==
    (exchange.endpoint = "issue" /\ NotAuthorized)
        => /\ exchange.core = <<>>
           /\ Len(exchange.sent) = 1
           /\ exchange.sent[1].status =
                  (IF exchange.method = "POST" THEN 401
                   ELSE IF exchange.method = "OPTIONS" THEN 200
                   ELSE 405)
           /\ exchange.method = "POST" => exchange.sent[1].error = Unauthorized

\* a POST request with an Authorization header and no body reached the issuance
\* endpoint while no issuer private key was configured
UnauthorizedWithoutBody ==
    /\ exchange.endpoint = "issue"
    /\ exchange.method = "POST"
    /\ exchange.authorization
    /\ exchange.issuerPrivateKey = Absent
    /\ exchange.body = Absent
    /\ exchange.sent # <<>>

\* C30: each handler sends exactly one response to every request: to OPTIONS,
\* to another method than POST, to an unauthorized request, to one with missing
\* or invalid fields or an unknown action, to one it serves, and to one whose
\* processing throws, a request without a body included
ExactlyOneResponse == Handled => Len(exchange.sent) = 1

\* the verification endpoint ran on a POST request without a body
MissingBodyHandled ==
    /\ exchange.endpoint = "verify"
    /\ exchange.method = "POST"
    /\ exchange.body = Absent

(***************************************************************************)
(* Properties of repeated verification: behaviours of SpecRetry.           *)
(***************************************************************************)
\* C24: two verifications of the same proof, public inputs, verification key
\* and issuer key under the same trust policy give the same isValid and the
\* same message, whatever was verified between them and whenever they run
VerdictRepeats ==
    (verdicts.last.called /\ SameInputs(verdicts.last, verdicts.first))
        => /\ verdicts.last.isValid = verdicts.first.isValid
           /\ verdicts.last.message = verdicts.first.message

\* the endpoint accepted a request, verified another, and was asked again about
\* the first at a later time
AskedAgainLater ==
    /\ verdicts.last.called
    /\ SameInputs(verdicts.last, verdicts.first)
    /\ verdicts.first.entry = "endpoint"
    /\ verdicts.first.isValid
    /\ verdicts.between
    /\ verdicts.last.at > verdicts.first.at

(***************************************************************************)
(* Properties of the page: behaviours of SpecUi.                           *)
(***************************************************************************)
\* C27: the proof ProofGenerator holds, which handleVerifyProof submits with
\* the issuer key of the loaded credential, was generated from the credential
\* that is loaded
StoredProofOfLoaded ==
    /\ ui.proofResponse # Absent => ui.proofOf = ui.credential
    /\ ui.submitted # Absent
            => \E c \in UiCredentials, p \in UiPrivateInputs, clock \in 0..MaxTick :
                  /\ generateProof([credential |-> c, privateInputs |-> p], clock).ok
                  /\ ui.submitted[1] =
                        ProofRequest(
                            generateProof([credential |-> c, privateInputs |-> p],
                                          clock).response,
                            c.issuerPublicKey)

(***************************************************************************)
(* Properties of the wallet service: behaviours of SpecWallet.             *)
(***************************************************************************)
\* C28: once disconnect() has resolved, and as long as neither connect() nor
\* restoreConnection() is called, isConnected() is false, getAddress() is null
\* and localStorage holds neither key, however the calls made before overlap
DisconnectedStaysDisconnected ==
    wallet.quiet
        => /\ ~wallet.connected
           /\ wallet.address = Absent
           /\ wallet.stored.connected = Absent
           /\ wallet.stored.address = Absent

\* no call is in flight
AllCallsCompleted == wallet.timers = 0 /\ wallet.microtasks = <<>>

\* C29: when the calls made have completed, connected is true only if address
\* is set, aleo_wallet_connected is 'true' and aleo_wallet_address is the
\* address; when the call completed last is a connect() that failed, connected
\* is false and address null
ConnectedOnlyIfStored ==
    AllCallsCompleted
        => /\ wallet.connected
                => /\ wallet.address # Absent
                   /\ wallet.stored.connected = Some("true")
                   /\ wallet.stored.address = wallet.address
           /\ wallet.last = "refused" => (~wallet.connected /\ wallet.address = Absent)

\* a connect() made while the wallet was connected has failed, and every call
\* has completed
ConnectFailedWhileStored ==
    /\ AllCallsCompleted
    /\ wallet.last = "refused"
    /\ wallet.stored.connected = Some("true")

====
